---- MODULE Spec2Model ----
(***************************************************************************)
(* ChirpChirp link protocol: the transmitter of transmitter/sender.py      *)
(* (handshake, then Query -> Permit -> Data -> DataAck per message) and    *)
(* the receiver of receiver/receiver.py (SYN wait, then the Connected      *)
(* classifier loop).                                                       *)
(*                                                                         *)
(* Spec    : send_data() run against a peer whose answers are arbitrary:   *)
(*           every serial read returns any element of Responses and every  *)
(*           serial write may succeed or fail.                             *)
(* SpecRx  : receive_loop() fed an arbitrary stream of units (SYN beacon,  *)
(*           Query packets, Data frames, stray bytes) through its serial   *)
(*           input buffer.                                                 *)
(* SpecStream : receive_loop() handed, once Connected, one stream of       *)
(*           well-formed units in a single piece, with or without a        *)
(*           garbage byte inserted at a unit boundary.                     *)
(* SpecWrap : send_data() late in a run, across the wrap of its counter.   *)
(* SpecCodec : create_frame and decode on their own.                       *)
(* SpecLink : send_data() and receive_loop() run together over a link     *)
(*           that loses nothing.                                           *)
(* SpecLossy : the same two over a link that may lose or hold back a       *)
(*           packet.                                                       *)
(* SpecFrames : a PacketReassembler of header-framed chunks fed frame      *)
(*           after frame.                                                  *)
(* SpecLines : a PacketReassembler of JSON lines fed line after line.      *)
(***************************************************************************)
EXTENDS Integers, Sequences, FiniteSets, TLC

VARIABLES
    \* ---- transmitter: send_data() and _handshake() locals ----
    tx_pc,                          \* position in send_data / _handshake
    mode,                           \* the mode argument of send_data
    n,                              \* the n argument of send_data
    attempt,                        \* _handshake: loop variable
    hs_result,                      \* what _handshake returned ("none" before)
    effective_retry_query_permit,
    effective_retry_data_ack,
    msg_idx,
    current_message_seq_counter,
    raw_data_packet,                \* LENGTH byte + frame content
    frame_seq_for_ack_handling,
    query_attempts,
    permission_received,
    data_tx_attempts,
    data_ack_received,
    reliable_ok_count,
    pdr_data_acks_received_count,
    pdr_messages_tx_initiated_count,
    final_return_value,             \* "none" until send_data returns
    tx_log,                         \* rows log_tx_event wrote for the handshake / the current message
    \* ---- transmitter: observation of the serial port ----
    tx_wire,                        \* s.write calls of the handshake / the current message
    permit_reads,                   \* kinds of the responses read while awaiting the Permit (current message)
    ack_reads,                      \* kinds of the responses read while awaiting the Data ACK (current message)
    n_permit_reads,                 \* number of s.read calls awaiting the Permit (current message)
    n_ack_reads,                    \* number of s.read calls awaiting the Data ACK (current message)
    hs_ack_read,                    \* a handshake read returned exactly (0x00, 0x00)
    session_sent,                   \* a Query or Data packet was handed to s.write in this session
    outcomes,                       \* msg_idx -> "none" | "Delivered" | "Dropped" | "Skipped"
    msg_seq,                        \* msg_idx -> SEQ byte its packets carried (-1: none written)
    \* ---- receiver: receive_loop() locals ----
    rx_pc,                          \* position in receive_loop
    handshake_success,
    received_message_count,
    receiver,                       \* which receive_loop runs: "receiver" or "receiver_integrated"
    first_byte_val,                 \* the classifier byte of the unit being read
    actual_content_bytes,           \* SEQ + payload of the Data frame being read
    last_seq,                       \* receiver_integrated: SEQ of the last Data frame (-1: None)
    pdr_window,                     \* receiver_integrated: deque(maxlen=50) of 1 (received) / 0 (lost)
    \* ---- receiver: observation of the serial port ----
    rx_buf,                         \* bytes waiting in the serial input buffer
    rx_out,                         \* _send_control_response calls, in order
    rx_arrived,                     \* number of units the link has delivered
    rx_syn_delivered,               \* SYN beacons the link delivered while the receiver waited in readline for SYN
    rx_queries,                     \* Query SEQs fully read in the Connected loop, in order
    rssi_enabled,                   \* the radio appends an RSSI byte to each Data frame it hands over
    stream,                         \* the unit stream handed over in one piece (SpecStream)
    rx_trace,                       \* bytes the Connected loop consumed, each with what it was taken for
    rx_frames,                      \* Data frames whose body was read in full, in order
    rx_decodes,                     \* outcome of each decode attempt, in order
    rx_conn_syn,                    \* SYN beacons delivered to the idle Connected loop
    rx_syn_run,                     \* of those, the run since the last valid Query or Data frame
    \* ---- codec: one call of encoder.create_frame / decoder.decode ----
    cx_pc,                          \* position of the codec run ("off" when no codec run is modelled)
    cx_args,                        \* create_frame's arguments
    cx_payload_chunk,               \* create_frame: payload_chunk before the frame content is built
    cx_frame,                       \* what create_frame returned
    cx_packet,                      \* the raw data packet built from the frame (LENGTH + content)
    cx_decode_args,                 \* decode's arguments
    cx_decoded,                     \* what decode returned
    \* ---- the link between a transmitter and a receiver run together ----
    lk_air,                         \* what the transmitter wrote and the receiver's port has not yet been handed
    lk_read,                        \* how many of the receiver's responses the transmitter's reads have taken or discarded
    lk_flushed,                     \* the transmitter has emptied its input buffer and waits in s.read
    lk_lost,                        \* the packets the link has lost, oldest first
    lk_late,                        \* reads of the transmitter that timed out ahead of a response
    \* ---- source/receiver/packet_reassembler.py: one PacketReassembler ----
    ra_frames,                      \* self._frames: seq -> payload_chunk
    ra_current_pkt_id,              \* self._current_pkt_id (-1: None)
    ra_current_total_frames,        \* self._current_total_frames (-1: None)
    ra_frame_content,               \* argument of the last process_frame call
    ra_returned,                    \* what the last process_frame call returned or raised
    ra_calls,                       \* number of process_frame calls made
    ra_before,                      \* the fields as the last process_frame call found them
    \* ---- receiver/packet_reassembler.py: one JSON-line PacketReassembler ----
    jr_packets,                     \* self._packets: seq -> payload
    jr_expected_total,              \* self._expected_total (-1: None)
    jr_line,                        \* argument of the last process_line call
    jr_returned,                    \* what the last process_line call returned or raised
    jr_calls,                       \* number of process_line calls made
    jr_before                       \* the fields the last process_line call found

tx_vars == <<tx_pc, mode, n, attempt, hs_result, effective_retry_query_permit,
             effective_retry_data_ack, msg_idx, current_message_seq_counter,
             raw_data_packet, frame_seq_for_ack_handling, query_attempts,
             permission_received, data_tx_attempts, data_ack_received,
             reliable_ok_count, pdr_data_acks_received_count,
             pdr_messages_tx_initiated_count, final_return_value, tx_log,
             tx_wire, permit_reads, ack_reads, n_permit_reads, n_ack_reads,
             hs_ack_read, session_sent, outcomes, msg_seq>>

rx_vars == <<rx_pc, handshake_success, received_message_count, receiver,
             first_byte_val, actual_content_bytes, last_seq, pdr_window,
             rx_buf, rx_out, rx_arrived, rx_syn_delivered, rx_queries,
             rssi_enabled, stream, rx_trace, rx_frames, rx_decodes,
             rx_conn_syn, rx_syn_run>>

cx_vars == <<cx_pc, cx_args, cx_payload_chunk, cx_frame, cx_packet,
             cx_decode_args, cx_decoded>>

lk_vars == <<lk_air, lk_read, lk_flushed, lk_lost, lk_late>>

ra_vars == <<ra_frames, ra_current_pkt_id, ra_current_total_frames,
             ra_frame_content, ra_returned, ra_calls, ra_before>>

jr_vars == <<jr_packets, jr_expected_total, jr_line, jr_returned, jr_calls,
            jr_before>>

pr_vars == <<ra_vars, jr_vars>>

vars == <<tx_vars, rx_vars, cx_vars, lk_vars, pr_vars>>

-----------------------------------------------------------------------------
(* Program constants *)

RETRY_HANDSHAKE == 3
RETRY_QUERY_PERMIT == 3
RETRY_DATA_ACK == 3
ACK_TYPE_HANDSHAKE == 0
ACK_TYPE_DATA == 170
QUERY_TYPE_SEND_REQUEST == 80
ACK_TYPE_SEND_PERMIT == 85
ACK_PACKET_LEN == 2
HANDSHAKE_ACK_SEQ == 0
SYN_MSG == <<83, 89, 78, 13, 10>>
ENCODER_SEQ == 1
MIN_FRAME_LEN == 2
MAX_FRAME_LEN == 57
NEW_MIN_FRAME_CONTENT_LEN == 6
NEW_FRAME_MAX_CONTENT_LEN == 57
MAX_FRAME_CONTENT_SIZE == 57
_DUMMY_SIZE_24B == 24
_DUMMY_SIZE_16B == 16
_DUMMY_SIZE_8B == 8
PDR_WINDOW_MAXLEN == 50

(* Bounds of the model *)

MaxMsgs == 2
MaxUnits == 4
WrapStart == 254

-----------------------------------------------------------------------------
(* Inputs *)

Modes == {"reliable", "PDR", "bogus"}

\* What sr.get_sensor_data() can hand to the loop: no usable sample, a sample
\* compress_data cannot pack, or a sample with its packed payload.
Samples ==
    { [valid |-> FALSE, blob |-> <<>>],
      [valid |-> TRUE,  blob |-> <<>>],
      [valid |-> TRUE,  blob |-> <<7, 10>>] }

\* What s.read(ACK_PACKET_LEN) can return: nothing (timeout), one byte (short
\* read), or two bytes.
RespTypes == {ACK_TYPE_HANDSHAKE, ACK_TYPE_SEND_PERMIT, ACK_TYPE_DATA, 153}
RespSeqs == {0, 1, 2}
Responses ==
    {<<>>} \cup {<<t>> : t \in RespTypes}
           \cup {<<t, q>> : t \in RespTypes, q \in RespSeqs}

Row_TotalUnset(seq, att, ev, total, final) ==
    [seq |-> seq, attempt |-> att, ev |-> ev, total |-> 0, final |-> final]

\* log_tx_event(frame_seq, attempt_num, event_type, ...,
\*              total_attempts_final, ack_received_final): one CSV row
Row(seq, att, ev, total, final) ==
    [seq |-> seq, attempt |-> att, ev |-> ev, total |-> total, final |-> final]

Ev(seq, att, ev) == Row(seq, att, ev, 0, "-")

Count(log, ev) == Cardinality({i \in 1..Len(log) : log[i].ev = ev})

\* Kind of a response with respect to the control packet (type, seq) that
\* answers the current message, read off the raw bytes.
Kind(resp, type, seq) ==
    IF Len(resp) = 0 THEN "timeout"
    ELSE IF Len(resp) = 1 THEN "short"
    ELSE IF resp = <<type, seq>> THEN "match"
    ELSE IF resp[1] = type THEN "wrong_seq"
    ELSE "wrong_type"

-----------------------------------------------------------------------------
(* Transmitter: packetizer.make_frames *)

\* encoder.split_into_packets(blob): one chunk record; its "seq" is the fixed
\* value the encoder sets, and nothing of the caller's pkt_id reaches it.
split_into_packets(blob) == << [seq |-> ENCODER_SEQ, payload |-> blob] >>

\* frame_content = bytes([seq]) + payload_chunk
FrameContent(seq, payload_chunk) == <<seq>> \o payload_chunk

\* make_frames(sample, pkt_id) -> list of frame contents [SEQ | PAYLOAD_CHUNK]
make_frames(sample, pkt_id) ==
    IF sample.blob = <<>> THEN <<>>
    ELSE LET p_info == split_into_packets(sample.blob)[1]
         IN  << FrameContent(p_info.seq, p_info.payload) >>

\* raw_data_packet = bytes([frame_content_len]) + frames[0]
RawDataPacket(frame_content) == <<Len(frame_content)>> \o frame_content

-----------------------------------------------------------------------------
(* Codec: transmitter/encoder.py and receiver/decoder.py *)

\* A number of a sample is the rational num / den (den > 0); a decoded
\* number is u / s, kept as num |-> u, den |-> s.
Num(a, b) == [num |-> a, den |-> b]

\* Python's None and a bytes object, as what a function returns
None == [kind |-> "None"]
BytesValue(b) == [kind |-> "bytes", bytes |-> b]

\* int(x) for x = a / b with b > 0: truncation toward zero
Trunc(a, b) == IF a >= 0 THEN a \div b ELSE -((-a) \div b)

\* _FMT = "<Ihhhhhhhhhffh": little-endian, no padding
_FMT == <<"I", "h", "h", "h", "h", "h", "h", "h", "h", "h", "f", "f", "h">>

\* struct.calcsize of one format character
FmtSize(c) == IF c = "h" THEN 2 ELSE 4

RECURSIVE SizeUpTo(_)
\* bytes the first k values take
SizeUpTo(k) == IF k = 0 THEN 0 ELSE SizeUpTo(k - 1) + FmtSize(_FMT[k])

\* struct.calcsize(_FMT)
calcsize == SizeUpTo(Len(_FMT))

\* _FIELDS of encoder.py: the path and the scale of each packed value
_FIELDS ==
    << [path |-> "ts",           scale |-> 1],
       [path |-> "accel.ax",     scale |-> 1000],
       [path |-> "accel.ay",     scale |-> 1000],
       [path |-> "accel.az",     scale |-> 1000],
       [path |-> "gyro.gx",      scale |-> 10],
       [path |-> "gyro.gy",      scale |-> 10],
       [path |-> "gyro.gz",      scale |-> 10],
       [path |-> "angle.roll",   scale |-> 10],
       [path |-> "angle.pitch",  scale |-> 10],
       [path |-> "angle.yaw",    scale |-> 10],
       [path |-> "gps.lat",      scale |-> 1],
       [path |-> "gps.lon",      scale |-> 1],
       [path |-> "gps.altitude", scale |-> 10] >>

\* _SCALES of decoder.py
_SCALES == <<1, 1000, 1000, 1000, 10, 10, 10, 10, 10, 10, 1, 1, 10>>

\* struct.pack of one "I" value that fits: four bytes, least significant first
U32Bytes(v) ==
    <<v % 256, (v \div 256) % 256, (v \div 65536) % 256, (v \div 16777216) % 256>>

\* struct.pack of one "h" value that fits: two's complement, low byte first
I16Bytes(v) == LET u == v % 65536 IN <<u % 256, u \div 256>>

RECURSIVE Log2(_)
\* position of the highest set bit of a >= 1
Log2(a) == IF a < 2 THEN 0 ELSE 1 + Log2(a \div 2)

RECURSIVE Pow2(_)
Pow2(e) == IF e = 0 THEN 1 ELSE 2 * Pow2(e - 1)

\* struct.pack of one "f" value: IEEE 754 binary32 of x, for x a whole number
\* of halves below 2^23 (such an x is a binary32 value, so nothing is rounded)
F32Bytes(x) ==
    LET sign   == IF x.num < 0 THEN 1 ELSE 0
        a      == (IF x.num < 0 THEN -x.num ELSE x.num) * (2 \div x.den)
        p      == Log2(a)
        biased == p + 126
        mant   == (a - Pow2(p)) * Pow2(23 - p)
    IN  IF a = 0 THEN <<0, 0, 0, sign * 128>>
        ELSE << mant % 256, (mant \div 256) % 256,
                (biased % 2) * 128 + (mant \div 65536),
                sign * 128 + (biased \div 2) >>

\* _pack_data: the entry of values_to_pack for the k-th field ("I", "h")
ValueToPack(k, raw_value) ==
    IF _FIELDS[k].path = "ts" THEN Trunc(raw_value.num, raw_value.den)
    ELSE Trunc(raw_value.num * _FIELDS[k].scale, raw_value.den)

\* struct.pack accepts the value for the format character (else struct.error)
StructFits(c, v) ==
    IF c = "I" THEN v >= 0
    ELSE IF c = "h" THEN v \in -32768..32767
    ELSE TRUE

\* _pack_data reaches its return statement: every key is there (_extract
\* raises KeyError otherwise) and struct.pack takes every value
Packable(data) ==
    /\ \A k \in 1..Len(_FIELDS) : _FIELDS[k].path \in data.keys
    /\ \A k \in 1..Len(_FIELDS) :
          _FMT[k] # "f" =>
              StructFits(_FMT[k], ValueToPack(k, data.val[_FIELDS[k].path]))

RECURSIVE PackFrom(_, _)
\* struct.pack(_FMT, *values_to_pack), from the k-th value on
PackFrom(k, data) ==
    IF k > Len(_FIELDS) THEN <<>>
    ELSE LET raw_value == data.val[_FIELDS[k].path]
             bytes == IF _FMT[k] = "f" THEN F32Bytes(raw_value)
                      ELSE IF _FMT[k] = "I"
                           THEN U32Bytes(ValueToPack(k, raw_value))
                           ELSE I16Bytes(ValueToPack(k, raw_value))
         IN  bytes \o PackFrom(k + 1, data)

\* _pack_data(data): the packed bytes, b"" when an exception was caught
_pack_data(data) == IF Packable(data) THEN PackFrom(1, data) ELSE <<>>

\* compress_layer(packed_data, mode)
compress_layer(packed_data, mode_) ==
    IF mode_ = "raw" THEN BytesValue(packed_data)
    ELSE IF mode_ = "bam" THEN BytesValue(packed_data)
    ELSE None

\* create_frame, steps 1 to 3: payload_chunk, or None where the function
\* returns None; urandom is what os.urandom(payload_size) handed back
PayloadChunk(sample, compression_mode, payload_size, urandom) ==
    IF payload_size = 0
    THEN LET packed_blob == _pack_data(sample)
         IN  IF packed_blob = <<>> THEN None
             ELSE compress_layer(packed_blob, compression_mode)
    ELSE IF payload_size > 0 THEN BytesValue(urandom)
    ELSE None

CutToMax_Keep(frame_content) == frame_content

\* create_frame, step 5: frame_content[:MAX_FRAME_CONTENT_SIZE] when too long
CutToMax(frame_content) ==
    IF Len(frame_content) > MAX_FRAME_CONTENT_SIZE
    THEN SubSeq(frame_content, 1, MAX_FRAME_CONTENT_SIZE)
    ELSE frame_content

\* create_frame(sample, message_seq, compression_mode, payload_size)
create_frame(sample, message_seq, compression_mode, payload_size, urandom) ==
    LET payload_chunk ==
            PayloadChunk(sample, compression_mode, payload_size, urandom)
    IN  IF payload_chunk = None THEN None
        ELSE BytesValue(CutToMax(<<message_seq % 256>> \o payload_chunk.bytes))

\* struct.unpack of one "I" value and of one "h" value
U32Of(b) == b[1] + 256 * b[2] + 65536 * b[3] + 16777216 * b[4]

I16Of(b) == LET u == b[1] + 256 * b[2] IN IF u >= 32768 THEN u - 65536 ELSE u

\* _unpack_and_reconstruct: u / s for the k-th unpacked value; an "f" value
\* is divided by 1.0 and is kept as the four bytes of its binary32
Reconstructed(k, buf) ==
    LET first == SizeUpTo(k - 1) + 1
        b     == SubSeq(buf, first, first + FmtSize(_FMT[k]) - 1)
    IN  IF _FMT[k] = "f" THEN [f32 |-> b]
        ELSE IF _FMT[k] = "I" THEN Num(U32Of(b), _SCALES[k])
        ELSE Num(I16Of(b), _SCALES[k])

\* _unpack_and_reconstruct(buf): the dict (its numbers in the order ts, ax,
\* ay, az, gx, gy, gz, roll, pitch, yaw, lat, lon, altitude), or None
_unpack_and_reconstruct(buf) ==
    IF Len(buf) # calcsize THEN None
    ELSE [kind |-> "dict", type |-> "sample",
          scaled_values |-> [k \in 1..Len(_FMT) |-> Reconstructed(k, buf)]]

\* bam_decode(code_byte): int.from_bytes(code_byte, "little"), kept as bytes
bam_decode(code_byte) == [kind |-> "dict", type |-> "bam_decoded", code |-> code_byte]

\* an exception leaving a call
Raise(exc) == [kind |-> "raise", exc |-> exc]

Front(s) == SubSeq(s, 1, Len(s) - 1)

RECURSIVE AdlerA(_)
\* Adler-32, low half: 1 + the sum of the bytes, modulo 65521
AdlerA(data) ==
    IF data = <<>> THEN 1 ELSE (AdlerA(Front(data)) + data[Len(data)]) % 65521

RECURSIVE AdlerB(_)
\* Adler-32, high half: the sum of the low halves of every prefix
AdlerB(data) ==
    IF data = <<>> THEN 0 ELSE (AdlerB(Front(data)) + AdlerA(data)) % 65521

\* the four bytes of Adler-32, most significant first
Adler32(data) ==
    <<AdlerB(data) \div 256, AdlerB(data) % 256,
      AdlerA(data) \div 256, AdlerA(data) % 256>>

\* a zlib stream holding data in one stored block: header 78 01, the block
\* header (final, stored, LEN, ~LEN), the data, the checksum
zlib_stored(data) ==
    <<120, 1>>
    \o <<1, Len(data) % 256, Len(data) \div 256,
         255 - (Len(data) % 256), 255 - (Len(data) \div 256)>>
    \o data \o Adler32(data)

\* zlib.decompress(payload) on streams of one stored block and on streams
\* broken in header, block header, length or checksum: the data, or zlib.error
zlib_decompress(payload) ==
    LET len == payload[4] + 256 * payload[5] IN
    IF /\ Len(payload) >= 11
       /\ payload[1] % 16 = 8
       /\ (payload[1] * 256 + payload[2]) % 31 = 0
       /\ (payload[2] \div 32) % 2 = 0
       /\ payload[3] = 1
       /\ payload[6] = 255 - payload[4]
       /\ payload[7] = 255 - payload[5]
       /\ Len(payload) >= 11 + len
       /\ SubSeq(payload, 8 + len, 11 + len) = Adler32(SubSeq(payload, 8, 7 + len))
    THEN BytesValue(SubSeq(payload, 8, 7 + len))
    ELSE Raise("zlib.error")

\* decode: a dummy mode checks the length only
DummyDecoded(payload, method, size) ==
    IF Len(payload) = size
    THEN [kind |-> "dict", type |-> "dummy_decoded", size |-> Len(payload),
          method |-> method]
    ELSE None

\* decode: the body of the try block
DecodeBody(payload, method) ==
    IF method = "none" THEN _unpack_and_reconstruct(payload)
    ELSE IF method = "zlib"
         THEN LET decompressed_buf == zlib_decompress(payload)
              IN  IF decompressed_buf.kind = "raise" THEN decompressed_buf
                  ELSE _unpack_and_reconstruct(decompressed_buf.bytes)
    ELSE IF method = "bam" THEN bam_decode(payload)
    ELSE IF method = "dummy_24b" THEN DummyDecoded(payload, method, _DUMMY_SIZE_24B)
    ELSE IF method = "dummy_16b" THEN DummyDecoded(payload, method, _DUMMY_SIZE_16B)
    ELSE IF method = "dummy_8b" THEN DummyDecoded(payload, method, _DUMMY_SIZE_8B)
    ELSE None

DecodeHandlers_StructOnly == {"struct.error"}

\* decode: the exception classes its except clauses name
DecodeHandlers == {"zlib.error", "Exception"}

\* decode(payload, method): an exception a clause names (every exception
\* here derives from Exception) is logged and None returned
decode(payload, method) ==
    LET r == DecodeBody(payload, method) IN
    IF r.kind = "raise" /\ (r.exc \in DecodeHandlers \/ "Exception" \in DecodeHandlers)
    THEN None
    ELSE r

\* the codec variables before any call
NoSample == [keys |-> {}, val |-> [p \in {} |-> Num(0, 1)]]

NoArgs ==
    [sample |-> NoSample, message_seq |-> 0, compression_mode |-> "raw",
     payload_size |-> 0, urandom |-> <<>>]

NoDecodeArgs == [payload |-> <<>>, method |-> "none"]

-----------------------------------------------------------------------------
(* Reassembler of header-framed chunks: source/receiver/packet_reassembler.py *)

\* a dict of chunks as a function on its keys
NoFrames == <<>>

\* d[key] = value
Stored(d, key, value) ==
    [k \in DOMAIN d \cup {key} |-> IF k = key THEN value ELSE d[k]]

\* the fields of a PacketReassembler
Reassembler(frames, pkt_id, total) ==
    [frames |-> frames, current_pkt_id |-> pkt_id, current_total_frames |-> total]

\* reset(): no frames, no PKT_ID, no total
reset(self) == Reassembler(NoFrames, -1, -1)

RECURSIVE JoinUpTo(_, _)
\* b"".join(frames[s] for s in range(k))
JoinUpTo(frames, k) ==
    IF k = 0 THEN <<>> ELSE JoinUpTo(frames, k - 1) \o frames[k - 1]

\* what a call leaves: the object's fields and the value returned or the
\* exception raised
Outcome(self, returned) == [self |-> self, returned |-> returned]

\* "if self._current_pkt_id is None: ... elif pkt_id != self._current_pkt_id:"
AfterPktIdCheck(self, pkt_id, total) ==
    IF self.current_pkt_id = -1
    THEN Reassembler(NoFrames, pkt_id, total)
    ELSE IF pkt_id # self.current_pkt_id
    THEN Reassembler(NoFrames, pkt_id, total)
    ELSE self

AfterTotalCheck_Keep(self, pkt_id, total) == self

\* "if total != self._current_total_frames:"
AfterTotalCheck(self, pkt_id, total) ==
    IF total # self.current_total_frames
    THEN Reassembler(NoFrames, pkt_id, total)
    ELSE self

IsDuplicate_Never(self, seq) == FALSE

\* "if seq in self._frames:"
IsDuplicate(self, seq) == seq \in DOMAIN self.frames

SeqInRange_Inclusive(seq, total) == 0 <= seq /\ seq <= total

\* "0 <= seq < total"
SeqInRange(seq, total) == 0 <= seq /\ seq < total

JoinAll_Descending(self) ==
    LET RECURSIVE Down(_)
        Down(k) == IF k = 0 THEN <<>> ELSE self.frames[k - 1] \o Down(k - 1)
    IN  Down(self.current_total_frames)

\* full_blob = b"".join(self._frames[s] for s in range(self._current_total_frames))
JoinAll(self) == JoinUpTo(self.frames, self.current_total_frames)

\* process_frame from the PKT_ID check to the end, for a frame whose header
\* passed the checks
StoreChunk(self, pkt_id, seq, total, payload_chunk) ==
    LET consistent ==
            AfterTotalCheck(AfterPktIdCheck(self, pkt_id, total), pkt_id, total)
        stored ==
            Reassembler(Stored(consistent.frames, seq, payload_chunk),
                        consistent.current_pkt_id, consistent.current_total_frames)
    IN  IF IsDuplicate(consistent, seq) THEN Outcome(consistent, None)
        ELSE IF Cardinality(DOMAIN stored.frames) = stored.current_total_frames
        THEN IF DOMAIN stored.frames # 0..(stored.current_total_frames - 1)
             THEN Outcome(reset(stored), Raise("MissingPacketError"))
             ELSE Outcome(reset(stored), BytesValue(JoinAll(stored)))
        ELSE Outcome(stored, None)

\* PacketReassembler.process_frame(frame_content)
process_frame(self, frame_content) ==
    LET header_size == 3 IN
    IF Len(frame_content) < header_size
    THEN Outcome(self, Raise("PacketReassemblyError"))
    ELSE LET pkt_id == frame_content[1]
             seq == frame_content[2]
             total == frame_content[3]
             payload_chunk == SubSeq(frame_content, header_size + 1,
                                     Len(frame_content))
         IN  IF total = 0
             THEN IF payload_chunk # <<>>
                  THEN Outcome(self, Raise("PacketReassemblyError"))
                  ELSE IF self.current_total_frames = -1 /\ self.frames = NoFrames
                       THEN Outcome(reset(self), None)
                       ELSE Outcome(self, None)
             ELSE IF ~SeqInRange(seq, total)
             THEN Outcome(self, Raise("PacketReassemblyError"))
             ELSE StoreChunk(self, pkt_id, seq, total, payload_chunk)

-----------------------------------------------------------------------------
(* Reassembler of JSON lines: receiver/packet_reassembler.py *)

\* values of a decoded JSON object as json.loads and dict.get give them; a
\* bool carries True == 1 and False == 0, as Python compares and hashes it
Absent == [type |-> "absent", num |-> 0, str |-> <<>>]

JsonNull == [type |-> "null", num |-> 0, str |-> <<>>]

JsonInt(i) == [type |-> "int", num |-> i, str |-> <<>>]

JsonBool(b) == [type |-> "bool", num |-> IF b THEN 1 ELSE 0, str |-> <<>>]

\* a number json.loads reads as a float, such as 1.0
JsonFloat(whole) == [type |-> "float", num |-> whole, str |-> <<>>]

JsonStr(s) == [type |-> "str", num |-> 0, str |-> s]

\* a line that json.loads refuses
BadJson ==
    [parses |-> FALSE, kind |-> "none", seq |-> Absent, total |-> Absent,
     payload |-> Absent]

\* a line that holds JSON other than an object
NotADict ==
    [parses |-> TRUE, kind |-> "list", seq |-> Absent, total |-> Absent,
     payload |-> Absent]

\* a line that holds a JSON object
DictLine(seq, total, payload) ==
    [parses |-> TRUE, kind |-> "dict", seq |-> seq, total |-> total,
     payload |-> payload]

\* "x is None" for x = data.get(key): the key is missing or holds null
IsNone(v) == v.type \in {"absent", "null"}

\* isinstance(x, int): bool is a subclass of int
IsInstanceInt(v) == v.type \in {"int", "bool"}

\* isinstance(x, str)
IsInstanceStr(v) == v.type = "str"

\* characters of a base64 string: 0..63 the alphabet by value, then '=', a
\* character outside the alphabet and a character outside ASCII
B64Pad == 64

B64Outside == B64Pad + 1

B64NonAscii == B64Pad + 2

\* the bytes of one quad c0 c1 c2 c3 with pads '=' in its last places
B64Quad(q) ==
    LET b0 == (q[1] * 4 + q[2] \div 16) % 256
        b1 == ((q[2] % 16) * 16 + q[3] \div 4) % 256
        b2 == ((q[3] % 4) * 64 + q[4]) % 256
    IN  IF q[3] = B64Pad THEN <<b0>>
        ELSE IF q[4] = B64Pad THEN <<b0, b1>>
        ELSE <<b0, b1, b2>>

RECURSIVE B64Quads(_)
B64Quads(s) ==
    IF s = <<>> THEN <<>>
    ELSE B64Quad(SubSeq(s, 1, 4)) \o B64Quads(SubSeq(s, 5, Len(s)))

\* base64.b64decode(s, validate=True) for strings without pads beyond a
\* full quad: binascii.Error / ValueError for a character outside the
\* alphabet, for a length that is no multiple of 4 and for a pad elsewhere
\* than in the last two places
b64decode(s) ==
    LET len == Len(s)
        bad ==
            \/ \E i \in 1..len : s[i] > B64Pad
            \/ len % 4 # 0
            \/ \E i \in 1..len : s[i] = B64Pad /\ i < len - 1
            \/ len > 0 /\ s[len - 1] = B64Pad /\ s[len] # B64Pad
    IN  IF bad THEN [ok |-> FALSE, bytes |-> <<>>]
        ELSE [ok |-> TRUE, bytes |-> B64Quads(s)]

\* the fields of the JSON-line PacketReassembler; expected_total -1: None
LineReassembler(packets, expected_total) ==
    [packets |-> packets, expected_total |-> expected_total]

\* _reset_state()
_reset_state(self) == LineReassembler(<<>>, -1)

RECURSIVE JoinSorted_Reversed(_)
JoinSorted_Reversed(packets) ==
    IF DOMAIN packets = {} THEN <<>>
    ELSE LET k == CHOOSE x \in DOMAIN packets : \A y \in DOMAIN packets : x >= y
         IN  packets[k] \o
             JoinSorted_Reversed([y \in DOMAIN packets \ {k} |-> packets[y]])

RECURSIVE JoinSorted(_)
\* b"".join(self._packets[k] for k in sorted(self._packets))
JoinSorted(packets) ==
    IF DOMAIN packets = {} THEN <<>>
    ELSE LET k == CHOOSE x \in DOMAIN packets : \A y \in DOMAIN packets : x <= y
         IN  packets[k] \o
             JoinSorted([y \in DOMAIN packets \ {k} |-> packets[y]])

IsDuplicatePacket_Never(self, seq) == FALSE

\* "if seq in self._packets:"
IsDuplicatePacket(self, seq) == seq \in DOMAIN self.packets

\* process_line from step 5 to the end, for a packet that passed the checks
\* of its fields
StorePacket(self, seq, total, payload) ==
    LET started ==
            IF self.expected_total = -1 THEN LineReassembler(<<>>, total)
            ELSE self
        stored ==
            LineReassembler(Stored(started.packets, seq, payload),
                            started.expected_total)
    IN  IF self.expected_total # -1 /\ total # self.expected_total
        THEN Outcome(_reset_state(self), Raise("InconsistentPacketDataError"))
        ELSE IF IsDuplicatePacket(started, seq)
        THEN Outcome(started, Raise("DuplicatePacketError"))
        ELSE IF Cardinality(DOMAIN stored.packets) = stored.expected_total
        THEN IF DOMAIN stored.packets # 1..stored.expected_total
             THEN Outcome(_reset_state(stored), Raise("PacketReassemblyError"))
             ELSE Outcome(_reset_state(stored),
                          BytesValue(JoinSorted(stored.packets)))
        ELSE Outcome(stored, None)

\* PacketReassembler.process_line(line)
process_line(self, line) ==
    IF ~line.parses THEN Outcome(self, Raise("PacketFormatError"))
    ELSE IF line.kind # "dict" THEN Outcome(self, Raise("PacketFormatError"))
    ELSE LET seq == line.seq
             total == line.total
             payload_b64 == line.payload
         IN  IF IsNone(seq) \/ IsNone(total) \/ IsNone(payload_b64)
             THEN Outcome(self, Raise("PacketFormatError"))
             ELSE IF \/ ~IsInstanceInt(seq)
                     \/ ~IsInstanceInt(total)
                     \/ ~IsInstanceStr(payload_b64)
             THEN Outcome(self, Raise("PacketFormatError"))
             ELSE IF total.num <= 0 \/ ~(0 < seq.num /\ seq.num <= total.num)
             THEN Outcome(self, Raise("PacketFormatError"))
             ELSE LET decoded == b64decode(payload_b64.str) IN
                  IF ~decoded.ok
                  THEN Outcome(self, Raise("PacketFormatError"))
                  ELSE StorePacket(self, seq.num, total.num, decoded.bytes)

\* no process_line call was made
NoLine == BadJson

-----------------------------------------------------------------------------
(* Transmitter: conditions and expressions of sender.py *)

NextSeq_NoWrap(c) == c + 1

NextSeq(c) == (c + 1) % 256

\* struct.pack("!BB", packet_type, seq)
ControlPacket(packet_type, seq) == <<packet_type, seq>>

HandshakeAckOk_AnySeq(ack_bytes) ==
    /\ Len(ack_bytes) = ACK_PACKET_LEN
    /\ ack_bytes[1] = ACK_TYPE_HANDSHAKE

\* len(ack_bytes) == ACK_PACKET_LEN and atype == ACK_TYPE_HANDSHAKE and seq == HANDSHAKE_ACK_SEQ
HandshakeAckOk(ack_bytes) ==
    /\ Len(ack_bytes) = ACK_PACKET_LEN
    /\ ack_bytes[1] = ACK_TYPE_HANDSHAKE
    /\ ack_bytes[2] = HANDSHAKE_ACK_SEQ

PermitOk_AnySeq(permit_ack_bytes) ==
    /\ Len(permit_ack_bytes) = ACK_PACKET_LEN
    /\ permit_ack_bytes[1] = ACK_TYPE_SEND_PERMIT

\* len(...) == ACK_PACKET_LEN and permit_type == ACK_TYPE_SEND_PERMIT
\*                            and permit_seq == frame_seq_for_ack_handling
PermitOk(permit_ack_bytes) ==
    /\ Len(permit_ack_bytes) = ACK_PACKET_LEN
    /\ permit_ack_bytes[1] = ACK_TYPE_SEND_PERMIT
    /\ permit_ack_bytes[2] = frame_seq_for_ack_handling

DataAckOk_AnySeq(data_ack_bytes) ==
    /\ Len(data_ack_bytes) = ACK_PACKET_LEN
    /\ data_ack_bytes[1] = ACK_TYPE_DATA

\* len(...) == ACK_PACKET_LEN and ack_type == ACK_TYPE_DATA
\*                            and ack_seq == frame_seq_for_ack_handling
DataAckOk(data_ack_bytes) ==
    /\ Len(data_ack_bytes) = ACK_PACKET_LEN
    /\ data_ack_bytes[1] = ACK_TYPE_DATA
    /\ data_ack_bytes[2] = frame_seq_for_ack_handling

QueryPacket_Counter == ControlPacket(QUERY_TYPE_SEND_REQUEST, current_message_seq_counter)

\* the bytes _tx_control_packet(s, frame_seq_for_ack_handling, QUERY_TYPE_SEND_REQUEST) writes
QueryPacket == ControlPacket(QUERY_TYPE_SEND_REQUEST, frame_seq_for_ack_handling)

QueryLoopCond_OneMore ==
    ~permission_received /\ query_attempts <= effective_retry_query_permit

\* while not permission_received and query_attempts < effective_retry_query_permit
QueryLoopCond ==
    ~permission_received /\ query_attempts < effective_retry_query_permit

DataLoopCond_OneMore ==
    ~data_ack_received /\ data_tx_attempts <= effective_retry_data_ack

\* while not data_ack_received and data_tx_attempts < effective_retry_data_ack
DataLoopCond ==
    ~data_ack_received /\ data_tx_attempts < effective_retry_data_ack

HandshakePassed_Always == TRUE

\* send_data: "if not _handshake(s): s.close(); return 0" lets the run go on
\* only when _handshake returned True
HandshakePassed == hs_result = "True"

\* A write handed to the port: the bytes, and whether s.write took them all.
Wr(bytes, ok) == [pkt |-> bytes, ok |-> ok]

IsQuery(w) == Len(w.pkt) = 2 /\ w.pkt[1] = QUERY_TYPE_SEND_REQUEST
IsSyn(w) == w.pkt = SYN_MSG
IsData(w) == ~IsQuery(w) /\ ~IsSyn(w)

QueriesOn(wire) == {i \in 1..Len(wire) : IsQuery(wire[i])}
DataOn(wire) == {i \in 1..Len(wire) : IsData(wire[i])}
SynOn(wire) == {i \in 1..Len(wire) : IsSyn(wire[i])}

-----------------------------------------------------------------------------
(* Transmitter: _handshake(s) *)

TxRxUnchanged == UNCHANGED <<rx_vars, cx_vars, lk_vars, pr_vars>>

Log(rows) == tx_log' = tx_log \o rows

\* for attempt in range(1, RETRY_HANDSHAKE + 1): ... _tx_data_packet(s, SYN_MSG)
TxHsSendSynWith(sent_ok) ==
    /\ tx_pc = "hs_send"
    /\ attempt < RETRY_HANDSHAKE
    /\ attempt' = attempt + 1
    /\ tx_wire' = Append(tx_wire, Wr(SYN_MSG, sent_ok))
    /\ IF sent_ok
       THEN /\ Log(<<Ev(HANDSHAKE_ACK_SEQ, attempt', "HANDSHAKE_SYN_SENT")>>)
            /\ tx_pc' = "hs_read"
       ELSE \* continue: the end-of-iteration block is skipped
            /\ Log(<<Ev(HANDSHAKE_ACK_SEQ, attempt', "HANDSHAKE_SYN_FAIL")>>)
            /\ tx_pc' = "hs_send"
    /\ UNCHANGED <<mode, n, hs_result, effective_retry_query_permit,
                   effective_retry_data_ack, msg_idx, current_message_seq_counter,
                   raw_data_packet, frame_seq_for_ack_handling, query_attempts,
                   permission_received, data_tx_attempts, data_ack_received,
                   reliable_ok_count, pdr_data_acks_received_count,
                   pdr_messages_tx_initiated_count, final_return_value,
                   permit_reads, ack_reads, n_permit_reads, n_ack_reads,
                   hs_ack_read, session_sent, outcomes, msg_seq>>

\* the write succeeds or fails
TxHsSendSyn ==
    /\ \E sent_ok \in BOOLEAN : TxHsSendSynWith(sent_ok)
    /\ TxRxUnchanged

\* ack_bytes = s.read(ACK_PACKET_LEN) and the branches on it
TxHsReadAckWith(ack_bytes) ==
    /\ tx_pc = "hs_read"
    /\ hs_ack_read' = (hs_ack_read \/ ack_bytes = <<ACK_TYPE_HANDSHAKE, HANDSHAKE_ACK_SEQ>>)
    /\ IF HandshakeAckOk(ack_bytes)
       THEN /\ Log(<<Row(HANDSHAKE_ACK_SEQ, attempt, "HANDSHAKE_ACK_OK", attempt, "true")>>)
            /\ hs_result' = "True"
            /\ tx_pc' = "setup"
       ELSE /\ Log(<<Ev(HANDSHAKE_ACK_SEQ, attempt,
                        IF Len(ack_bytes) = ACK_PACKET_LEN
                        THEN "HANDSHAKE_ACK_INVALID" ELSE "HANDSHAKE_ACK_TIMEOUT")>>
                   \o (IF attempt = RETRY_HANDSHAKE
                       THEN <<Row(HANDSHAKE_ACK_SEQ, attempt, "HANDSHAKE_FINAL_FAIL", attempt, "false")>>
                       ELSE <<>>))
            /\ hs_result' = hs_result
            /\ tx_pc' = "hs_send"
    /\ UNCHANGED <<mode, n, attempt, effective_retry_query_permit,
                   effective_retry_data_ack, msg_idx, current_message_seq_counter,
                   raw_data_packet, frame_seq_for_ack_handling, query_attempts,
                   permission_received, data_tx_attempts, data_ack_received,
                   reliable_ok_count, pdr_data_acks_received_count,
                   pdr_messages_tx_initiated_count, final_return_value,
                   tx_wire, permit_reads, ack_reads, n_permit_reads, n_ack_reads,
                   session_sent, outcomes, msg_seq>>

\* the read returns whatever the peer sent, or times out
TxHsReadAck ==
    /\ \E ack_bytes \in Responses : TxHsReadAckWith(ack_bytes)
    /\ TxRxUnchanged

\* the for loop is exhausted: _handshake returns False
TxHsExhausted ==
    /\ tx_pc = "hs_send"
    /\ attempt = RETRY_HANDSHAKE
    /\ hs_result' = "False"
    /\ tx_pc' = "setup"
    /\ UNCHANGED <<mode, n, attempt, effective_retry_query_permit,
                   effective_retry_data_ack, msg_idx, current_message_seq_counter,
                   raw_data_packet, frame_seq_for_ack_handling, query_attempts,
                   permission_received, data_tx_attempts, data_ack_received,
                   reliable_ok_count, pdr_data_acks_received_count,
                   pdr_messages_tx_initiated_count, final_return_value, tx_log,
                   tx_wire, permit_reads, ack_reads, n_permit_reads, n_ack_reads,
                   hs_ack_read, session_sent, outcomes, msg_seq>>
    /\ TxRxUnchanged

-----------------------------------------------------------------------------
(* Transmitter: send_data(n, mode) up to the message loop *)

\* if not _handshake(s): s.close(); return 0
TxHandshakeFailed ==
    /\ tx_pc = "setup"
    /\ ~HandshakePassed
    /\ final_return_value' = 0
    /\ tx_pc' = "done"
    /\ UNCHANGED <<mode, n, attempt, hs_result, effective_retry_query_permit,
                   effective_retry_data_ack, msg_idx, current_message_seq_counter,
                   raw_data_packet, frame_seq_for_ack_handling, query_attempts,
                   permission_received, data_tx_attempts, data_ack_received,
                   reliable_ok_count, pdr_data_acks_received_count,
                   pdr_messages_tx_initiated_count, tx_log,
                   tx_wire, permit_reads, ack_reads, n_permit_reads, n_ack_reads,
                   hs_ack_read, session_sent, outcomes, msg_seq>>
    /\ TxRxUnchanged

\* the mode branch, SensorReader(), and the counters set before the loop
TxSetup ==
    /\ tx_pc = "setup"
    /\ HandshakePassed
    /\ \E sr_ok \in BOOLEAN :
        IF mode \notin {"PDR", "reliable"}
        THEN /\ final_return_value' = -2
             /\ tx_pc' = "done"
             /\ UNCHANGED <<effective_retry_query_permit, effective_retry_data_ack>>
        ELSE /\ effective_retry_query_permit' = (IF mode = "PDR" THEN 1 ELSE RETRY_QUERY_PERMIT)
             /\ effective_retry_data_ack' = (IF mode = "PDR" THEN 1 ELSE RETRY_DATA_ACK)
             /\ IF sr_ok
                THEN /\ final_return_value' = final_return_value
                     /\ tx_pc' = "msg_top"
                ELSE /\ final_return_value' = -3
                     /\ tx_pc' = "done"
    /\ reliable_ok_count' = 0
    /\ pdr_data_acks_received_count' = 0
    /\ pdr_messages_tx_initiated_count' = 0
    /\ current_message_seq_counter' = 0
    /\ msg_idx' = 0
    /\ UNCHANGED <<mode, n, attempt, hs_result,
                   raw_data_packet, frame_seq_for_ack_handling, query_attempts,
                   permission_received, data_tx_attempts, data_ack_received, tx_log,
                   tx_wire, permit_reads, ack_reads, n_permit_reads, n_ack_reads,
                   hs_ack_read, session_sent, outcomes, msg_seq>>
    /\ TxRxUnchanged

-----------------------------------------------------------------------------
(* Transmitter: the message loop of send_data *)

NewMessageObservation ==
    /\ tx_log' = <<>>
    /\ tx_wire' = <<>>
    /\ permit_reads' = {}
    /\ ack_reads' = {}
    /\ n_permit_reads' = 0
    /\ n_ack_reads' = 0

\* for msg_idx in range(1, n + 1): the sample or its frame is unusable, the
\* message is skipped and the counter advanced
TxMsgSkipWith(sample) ==
    /\ tx_pc = "msg_top"
    /\ msg_idx < n
    /\ msg_idx' = msg_idx + 1
    /\ \/ ~sample.valid
       \/ sample.valid /\ make_frames(sample, current_message_seq_counter) = <<>>
    /\ current_message_seq_counter' = NextSeq(current_message_seq_counter)
    /\ outcomes' = [outcomes EXCEPT ![msg_idx'] = "Skipped"]
    /\ NewMessageObservation
    /\ tx_pc' = "msg_top"
    /\ UNCHANGED <<mode, n, attempt, hs_result, effective_retry_query_permit,
                   effective_retry_data_ack,
                   raw_data_packet, frame_seq_for_ack_handling, query_attempts,
                   permission_received, data_tx_attempts, data_ack_received,
                   reliable_ok_count, pdr_data_acks_received_count,
                   pdr_messages_tx_initiated_count, final_return_value,
                   hs_ack_read, session_sent, msg_seq>>

\* sr.get_sensor_data() hands over any of the samples
TxMsgSkip ==
    /\ \E sample \in Samples : TxMsgSkipWith(sample)
    /\ TxRxUnchanged

\* for msg_idx in range(1, n + 1): frames built, the Query loop is entered
TxMsgStartWith(sample) ==
    /\ tx_pc = "msg_top"
    /\ msg_idx < n
    /\ msg_idx' = msg_idx + 1
    /\ LET frames == make_frames(sample, current_message_seq_counter) IN
        /\ sample.valid
        /\ frames # <<>>
        /\ raw_data_packet' = RawDataPacket(frames[1])
        /\ frame_seq_for_ack_handling' = frames[1][1]
    /\ pdr_messages_tx_initiated_count' =
          (IF mode = "PDR" THEN pdr_messages_tx_initiated_count + 1
                           ELSE pdr_messages_tx_initiated_count)
    /\ query_attempts' = 0
    /\ permission_received' = FALSE
    /\ NewMessageObservation
    /\ tx_pc' = "query_loop"
    /\ UNCHANGED <<mode, n, attempt, hs_result, effective_retry_query_permit,
                   effective_retry_data_ack, current_message_seq_counter,
                   data_tx_attempts, data_ack_received,
                   reliable_ok_count, pdr_data_acks_received_count,
                   final_return_value, hs_ack_read, session_sent, outcomes, msg_seq>>

\* sr.get_sensor_data() hands over any of the samples
TxMsgStart ==
    /\ \E sample \in Samples : TxMsgStartWith(sample)
    /\ TxRxUnchanged

\* one pass of the Query loop up to the read: _tx_control_packet and its log rows
TxQuerySendWith(query_sent_ok) ==
    /\ tx_pc = "query_loop"
    /\ QueryLoopCond
    /\ query_attempts' = query_attempts + 1
    /\ tx_wire' = Append(tx_wire, Wr(QueryPacket, query_sent_ok))
    /\ IF query_sent_ok
       THEN /\ Log(<<Ev(frame_seq_for_ack_handling, query_attempts', "QUERY_SENT")>>)
            /\ tx_pc' = "permit_read"
       ELSE IF query_attempts' < effective_retry_query_permit
       THEN /\ Log(<<Ev(frame_seq_for_ack_handling, query_attempts', "QUERY_TX_FAIL")>>)
            /\ tx_pc' = "query_loop"
       ELSE /\ Log(<<Ev(frame_seq_for_ack_handling, query_attempts', "QUERY_TX_FAIL"),
                     Row(frame_seq_for_ack_handling, query_attempts', "QUERY_FINAL_FAIL",
                         query_attempts', "false")>>)
            /\ tx_pc' = "query_exit"
    /\ session_sent' = TRUE
    /\ msg_seq' = [msg_seq EXCEPT ![msg_idx] = QueryPacket[2]]
    /\ UNCHANGED <<mode, n, attempt, hs_result, effective_retry_query_permit,
                   effective_retry_data_ack, msg_idx, current_message_seq_counter,
                   raw_data_packet, frame_seq_for_ack_handling,
                   permission_received, data_tx_attempts, data_ack_received,
                   reliable_ok_count, pdr_data_acks_received_count,
                   pdr_messages_tx_initiated_count, final_return_value,
                   permit_reads, ack_reads, n_permit_reads, n_ack_reads,
                   hs_ack_read, outcomes>>

\* the write succeeds or fails
TxQuerySend ==
    /\ \E query_sent_ok \in BOOLEAN : TxQuerySendWith(query_sent_ok)
    /\ TxRxUnchanged

\* permit_ack_bytes = s.read(ACK_PACKET_LEN) and the branches on it
TxPermitReadWith(permit_ack_bytes) ==
    /\ tx_pc = "permit_read"
    /\ permit_reads' = permit_reads \cup
          {Kind(permit_ack_bytes, ACK_TYPE_SEND_PERMIT, raw_data_packet[2])}
    /\ permission_received' = (permission_received \/ PermitOk(permit_ack_bytes))
    /\ IF PermitOk(permit_ack_bytes)
       THEN Log(<<Row(frame_seq_for_ack_handling, query_attempts, "PERMIT_ACK_OK",
                      query_attempts, "true")>>)
       ELSE Log(<<Ev(frame_seq_for_ack_handling, query_attempts,
                     IF Len(permit_ack_bytes) = ACK_PACKET_LEN
                     THEN "PERMIT_ACK_INVALID" ELSE "PERMIT_ACK_TIMEOUT")>>
                \o (IF query_attempts = effective_retry_query_permit
                    THEN <<Row(frame_seq_for_ack_handling, query_attempts,
                               "PERMIT_FINAL_FAIL", query_attempts, "false")>>
                    ELSE <<>>))
    /\ n_permit_reads' = n_permit_reads + 1
    /\ tx_pc' = "query_loop"
    /\ UNCHANGED <<mode, n, attempt, hs_result, effective_retry_query_permit,
                   effective_retry_data_ack, msg_idx, current_message_seq_counter,
                   raw_data_packet, frame_seq_for_ack_handling, query_attempts,
                   data_tx_attempts, data_ack_received,
                   reliable_ok_count, pdr_data_acks_received_count,
                   pdr_messages_tx_initiated_count, final_return_value,
                   tx_wire, ack_reads, n_ack_reads,
                   hs_ack_read, session_sent, outcomes, msg_seq>>

\* the read returns whatever the peer sent, or times out
TxPermitRead ==
    /\ \E permit_ack_bytes \in Responses : TxPermitReadWith(permit_ack_bytes)
    /\ TxRxUnchanged

\* after the Query loop: "if not permission_received: ... continue"
TxPermitFailed ==
    /\ tx_pc = "query_exit" \/ (tx_pc = "query_loop" /\ ~QueryLoopCond)
    /\ ~permission_received
    /\ current_message_seq_counter' = NextSeq(current_message_seq_counter)
    /\ outcomes' = [outcomes EXCEPT ![msg_idx] = "Dropped"]
    /\ tx_pc' = "msg_top"
    /\ UNCHANGED <<mode, n, attempt, hs_result, effective_retry_query_permit,
                   effective_retry_data_ack, msg_idx,
                   raw_data_packet, frame_seq_for_ack_handling, query_attempts,
                   permission_received, data_tx_attempts, data_ack_received,
                   reliable_ok_count, pdr_data_acks_received_count,
                   pdr_messages_tx_initiated_count, final_return_value, tx_log,
                   tx_wire, permit_reads, ack_reads, n_permit_reads, n_ack_reads,
                   hs_ack_read, session_sent, msg_seq>>
    /\ TxRxUnchanged

\* after the Query loop with the permit: the Data loop's locals are set
TxPermitted ==
    /\ tx_pc = "query_exit" \/ (tx_pc = "query_loop" /\ ~QueryLoopCond)
    /\ permission_received
    /\ data_tx_attempts' = 0
    /\ data_ack_received' = FALSE
    /\ tx_pc' = "data_loop"
    /\ UNCHANGED <<mode, n, attempt, hs_result, effective_retry_query_permit,
                   effective_retry_data_ack, msg_idx, current_message_seq_counter,
                   raw_data_packet, frame_seq_for_ack_handling, query_attempts,
                   permission_received,
                   reliable_ok_count, pdr_data_acks_received_count,
                   pdr_messages_tx_initiated_count, final_return_value, tx_log,
                   tx_wire, permit_reads, ack_reads, n_permit_reads, n_ack_reads,
                   hs_ack_read, session_sent, outcomes, msg_seq>>
    /\ TxRxUnchanged

\* one pass of the Data loop up to the read: _tx_data_packet and its log rows
TxDataSendWith(data_sent_ok) ==
    /\ tx_pc = "data_loop"
    /\ DataLoopCond
    /\ data_tx_attempts' = data_tx_attempts + 1
    /\ tx_wire' = Append(tx_wire, Wr(raw_data_packet, data_sent_ok))
    /\ IF data_sent_ok
       THEN /\ Log(<<Ev(frame_seq_for_ack_handling, data_tx_attempts', "DATA_SENT")>>)
            /\ tx_pc' = "ack_read"
       ELSE IF data_tx_attempts' < effective_retry_data_ack
       THEN /\ Log(<<Ev(frame_seq_for_ack_handling, data_tx_attempts', "DATA_TX_FAIL")>>)
            /\ tx_pc' = "data_loop"
       ELSE /\ Log(<<Ev(frame_seq_for_ack_handling, data_tx_attempts', "DATA_TX_FAIL"),
                     Row(frame_seq_for_ack_handling, data_tx_attempts', "DATA_FINAL_FAIL",
                         data_tx_attempts', "false")>>)
            /\ tx_pc' = "data_exit"
    /\ session_sent' = TRUE
    /\ UNCHANGED <<mode, n, attempt, hs_result, effective_retry_query_permit,
                   effective_retry_data_ack, msg_idx, current_message_seq_counter,
                   raw_data_packet, frame_seq_for_ack_handling, query_attempts,
                   permission_received, data_ack_received,
                   reliable_ok_count, pdr_data_acks_received_count,
                   pdr_messages_tx_initiated_count, final_return_value,
                   permit_reads, ack_reads, n_permit_reads, n_ack_reads,
                   hs_ack_read, outcomes, msg_seq>>

\* the write succeeds or fails
TxDataSend ==
    /\ \E data_sent_ok \in BOOLEAN : TxDataSendWith(data_sent_ok)
    /\ TxRxUnchanged

\* data_ack_bytes = s.read(ACK_PACKET_LEN) and the branches on it
TxAckReadWith(data_ack_bytes) ==
    /\ tx_pc = "ack_read"
    /\ ack_reads' = ack_reads \cup
          {Kind(data_ack_bytes, ACK_TYPE_DATA, raw_data_packet[2])}
    /\ data_ack_received' = (data_ack_received \/ DataAckOk(data_ack_bytes))
    /\ pdr_data_acks_received_count' =
          (IF DataAckOk(data_ack_bytes) /\ mode = "PDR"
           THEN pdr_data_acks_received_count + 1
           ELSE pdr_data_acks_received_count)
    /\ IF DataAckOk(data_ack_bytes)
       THEN Log(<<Row(frame_seq_for_ack_handling, data_tx_attempts, "DATA_ACK_OK",
                      data_tx_attempts, "true")>>)
       ELSE Log(<<Ev(frame_seq_for_ack_handling, data_tx_attempts,
                     IF Len(data_ack_bytes) = ACK_PACKET_LEN
                     THEN "DATA_ACK_INVALID" ELSE "DATA_ACK_TIMEOUT")>>
                \o (IF data_tx_attempts = effective_retry_data_ack
                    THEN <<Row(frame_seq_for_ack_handling, data_tx_attempts,
                               "DATA_ACK_FINAL_FAIL", data_tx_attempts, "false")>>
                    ELSE <<>>))
    /\ n_ack_reads' = n_ack_reads + 1
    /\ tx_pc' = "data_loop"
    /\ UNCHANGED <<mode, n, attempt, hs_result, effective_retry_query_permit,
                   effective_retry_data_ack, msg_idx, current_message_seq_counter,
                   raw_data_packet, frame_seq_for_ack_handling, query_attempts,
                   permission_received, data_tx_attempts,
                   reliable_ok_count,
                   pdr_messages_tx_initiated_count, final_return_value,
                   tx_wire, permit_reads, n_permit_reads,
                   hs_ack_read, session_sent, outcomes, msg_seq>>

\* the read returns whatever the peer sent, or times out
TxAckRead ==
    /\ \E data_ack_bytes \in Responses : TxAckReadWith(data_ack_bytes)
    /\ TxRxUnchanged

\* after the Data loop: the outcome, and the counter advanced for the next message
TxMsgEnd ==
    /\ tx_pc = "data_exit" \/ (tx_pc = "data_loop" /\ ~DataLoopCond)
    /\ reliable_ok_count' =
          (IF data_ack_received /\ mode = "reliable"
           THEN reliable_ok_count + 1 ELSE reliable_ok_count)
    /\ outcomes' = [outcomes EXCEPT ![msg_idx] =
                       IF data_ack_received THEN "Delivered" ELSE "Dropped"]
    /\ current_message_seq_counter' = NextSeq(current_message_seq_counter)
    /\ tx_pc' = "msg_top"
    /\ UNCHANGED <<mode, n, attempt, hs_result, effective_retry_query_permit,
                   effective_retry_data_ack, msg_idx,
                   raw_data_packet, frame_seq_for_ack_handling, query_attempts,
                   permission_received, data_tx_attempts, data_ack_received,
                   pdr_data_acks_received_count,
                   pdr_messages_tx_initiated_count, final_return_value, tx_log,
                   tx_wire, permit_reads, ack_reads, n_permit_reads, n_ack_reads,
                   hs_ack_read, session_sent, msg_seq>>
    /\ TxRxUnchanged

\* the loop is exhausted: final_return_value and return
TxReturn ==
    /\ tx_pc = "msg_top"
    /\ msg_idx = n
    /\ final_return_value' =
          (IF mode = "PDR" THEN pdr_data_acks_received_count ELSE reliable_ok_count)
    /\ tx_pc' = "done"
    /\ UNCHANGED <<mode, n, attempt, hs_result, effective_retry_query_permit,
                   effective_retry_data_ack, msg_idx, current_message_seq_counter,
                   raw_data_packet, frame_seq_for_ack_handling, query_attempts,
                   permission_received, data_tx_attempts, data_ack_received,
                   reliable_ok_count, pdr_data_acks_received_count,
                   pdr_messages_tx_initiated_count, tx_log,
                   tx_wire, permit_reads, ack_reads, n_permit_reads, n_ack_reads,
                   hs_ack_read, session_sent, outcomes, msg_seq>>
    /\ TxRxUnchanged

-----------------------------------------------------------------------------
(* Initial states *)

TxFresh ==
    /\ attempt = 0
    /\ hs_result = "none"
    /\ effective_retry_query_permit = 0
    /\ effective_retry_data_ack = 0
    /\ msg_idx = 0
    /\ current_message_seq_counter = 0
    /\ raw_data_packet = <<>>
    /\ frame_seq_for_ack_handling = 0
    /\ query_attempts = 0
    /\ permission_received = FALSE
    /\ data_tx_attempts = 0
    /\ data_ack_received = FALSE
    /\ reliable_ok_count = 0
    /\ pdr_data_acks_received_count = 0
    /\ pdr_messages_tx_initiated_count = 0
    /\ final_return_value = "none"
    /\ tx_log = <<>>
    /\ tx_wire = <<>>
    /\ permit_reads = {}
    /\ ack_reads = {}
    /\ n_permit_reads = 0
    /\ n_ack_reads = 0
    /\ hs_ack_read = FALSE
    /\ session_sent = FALSE
    /\ outcomes = [i \in 1..(MaxMsgs + 1) |-> "none"]
    /\ msg_seq = [i \in 1..(MaxMsgs + 1) |-> -1]

\* no stream is handed over in one piece
NoStream == [units |-> <<>>, gap |-> -1, junk |-> -1]

RxFresh ==
    /\ handshake_success = FALSE
    /\ received_message_count = 0
    /\ first_byte_val = -1
    /\ actual_content_bytes = <<>>
    /\ last_seq = -1
    /\ pdr_window = <<>>
    /\ rx_buf = <<>>
    /\ rx_out = <<>>
    /\ rx_arrived = 0
    /\ rx_syn_delivered = 0
    /\ rx_queries = <<>>
    /\ rx_trace = <<>>
    /\ rx_frames = <<>>
    /\ rx_decodes = <<>>
    /\ rx_conn_syn = 0
    /\ rx_syn_run = 0

\* send_data(n, mode) entered, the serial port open, nothing sent yet
TxInit ==
    /\ tx_pc = "hs_send"
    /\ mode \in Modes
    /\ n \in 0..MaxMsgs
    /\ TxFresh

\* no transmitter process is running
TxOff ==
    /\ tx_pc = "off"
    /\ mode = "reliable"
    /\ n = 0
    /\ TxFresh

\* receive_loop() entered, the serial port open, nothing received yet
RxInit ==
    /\ rx_pc = "hs_top"
    /\ receiver \in {"receiver", "receiver_integrated"}
    /\ rssi_enabled \in BOOLEAN
    /\ stream = NoStream
    /\ RxFresh

\* no receiver process is running
RxOff ==
    /\ rx_pc = "off"
    /\ receiver = "receiver"
    /\ rssi_enabled = FALSE
    /\ stream = NoStream
    /\ RxFresh

\* no codec run is modelled
CxOff ==
    /\ cx_pc = "off"
    /\ cx_args = NoArgs
    /\ cx_payload_chunk = None
    /\ cx_frame = None
    /\ cx_packet = <<>>
    /\ cx_decode_args = NoDecodeArgs
    /\ cx_decoded = None

\* no transmitter and receiver run together
LkOff ==
    /\ lk_air = <<>>
    /\ lk_read = 0
    /\ lk_flushed = FALSE
    /\ lk_lost = <<>>
    /\ lk_late = 0

\* a PacketReassembler as __init__ leaves it
RaFresh ==
    /\ ra_frames = <<>>
    /\ ra_current_pkt_id = -1
    /\ ra_current_total_frames = -1
    /\ ra_frame_content = <<>>
    /\ ra_returned = None
    /\ ra_calls = 0
    /\ ra_before = Reassembler(NoFrames, -1, -1)

\* a JSON-line PacketReassembler as __init__ leaves it
JrFresh ==
    /\ jr_packets = <<>>
    /\ jr_expected_total = -1
    /\ jr_line = NoLine
    /\ jr_returned = None
    /\ jr_calls = 0
    /\ jr_before = LineReassembler(<<>>, -1)

\* no reassembler is fed
PrOff == RaFresh /\ JrFresh

Init == TxInit /\ RxOff /\ CxOff /\ LkOff /\ PrOff

InitRx == RxInit /\ TxOff /\ CxOff /\ LkOff /\ PrOff

Next ==
    \/ TxHsSendSyn
    \/ TxHsReadAck
    \/ TxHsExhausted
    \/ TxHandshakeFailed
    \/ TxSetup
    \/ TxMsgSkip
    \/ TxMsgStart
    \/ TxQuerySend
    \/ TxPermitRead
    \/ TxPermitFailed
    \/ TxPermitted
    \/ TxDataSend
    \/ TxAckRead
    \/ TxMsgEnd
    \/ TxReturn

Spec == Init /\ [][Next]_vars

-----------------------------------------------------------------------------
(* Transmitter late in a run: the message loop from the iteration at which
   the 8-bit SEQ counter is about to wrap *)

\* the loop top after the handshake passed at the first attempt and the first
\* WrapStart iterations found no usable sample
AfterSkips ==
    /\ tx_pc = "msg_top"
    /\ mode \in {"reliable", "PDR"}
    /\ n \in WrapStart..(WrapStart + MaxMsgs)
    /\ attempt = 1
    /\ hs_result = "True"
    /\ effective_retry_query_permit = (IF mode = "PDR" THEN 1 ELSE RETRY_QUERY_PERMIT)
    /\ effective_retry_data_ack = (IF mode = "PDR" THEN 1 ELSE RETRY_DATA_ACK)
    /\ msg_idx = WrapStart
    /\ current_message_seq_counter = WrapStart % 256
    /\ raw_data_packet = <<>>
    /\ frame_seq_for_ack_handling = 0
    /\ query_attempts = 0
    /\ permission_received = FALSE
    /\ data_tx_attempts = 0
    /\ data_ack_received = FALSE
    /\ reliable_ok_count = 0
    /\ pdr_data_acks_received_count = 0
    /\ pdr_messages_tx_initiated_count = 0
    /\ final_return_value = "none"
    /\ tx_log = <<>>
    /\ tx_wire = <<>>
    /\ permit_reads = {}
    /\ ack_reads = {}
    /\ n_permit_reads = 0
    /\ n_ack_reads = 0
    /\ hs_ack_read = TRUE
    /\ session_sent = FALSE
    /\ outcomes = [i \in 1..(WrapStart + MaxMsgs + 1) |->
                      IF i <= WrapStart THEN "Skipped" ELSE "none"]
    /\ msg_seq = [i \in 1..(WrapStart + MaxMsgs + 1) |-> -1]

InitWrap == AfterSkips /\ RxOff /\ CxOff /\ LkOff /\ PrOff

NextWrap ==
    \/ TxMsgSkip
    \/ TxMsgStart
    \/ TxQuerySend
    \/ TxPermitRead
    \/ TxPermitFailed
    \/ TxPermitted
    \/ TxDataSend
    \/ TxAckRead
    \/ TxMsgEnd
    \/ TxReturn

SpecWrap == InitWrap /\ [][NextWrap]_vars

-----------------------------------------------------------------------------
(* Receiver: receive_loop() of receiver.py and of receiver_integrated.py *)

QueryUnits == { <<QUERY_TYPE_SEND_REQUEST, 1>>, <<QUERY_TYPE_SEND_REQUEST, 80>> }

DataUnits == { <<2, 1, 7>>, <<6, 2, 7, 7, 7, 10, 7>> }

\* a response packet echoed back into the receiver's input, and a stray byte
StrayUnits == { <<ACK_TYPE_SEND_PERMIT, 6>>, <<153>> }

\* What the link can deliver into the serial input buffer in one piece.
Units == {SYN_MSG} \cup QueryUnits \cup DataUnits \cup StrayUnits

\* the RSSI byte a radio configured for it appends to a Data frame
RssiTrailer == <<200>>

\* a well-formed Data frame: LENGTH, then LENGTH bytes
IsDataUnit(u) ==
    /\ u # <<>>
    /\ u[1] \in MIN_FRAME_LEN..MAX_FRAME_LEN
    /\ Len(u) = u[1] + 1

IsQueryUnit(u) == Len(u) = 2 /\ u[1] = QUERY_TYPE_SEND_REQUEST

\* the bytes the radio hands over for a unit
OnSerial(u) == IF rssi_enabled /\ IsDataUnit(u) THEN u \o RssiTrailer ELSE u

Min(a, b) == IF a < b THEN a ELSE b

\* ser.read(size): the bytes waiting, at most size of them (fewer when the
\* timeout ends the read)
ReadBytes(buf, size) == SubSeq(buf, 1, Min(size, Len(buf)))
RestBytes(buf, size) == SubSeq(buf, Min(size, Len(buf)) + 1, Len(buf))

\* ser.readline(): up to and including the first LF, or all that is waiting
\* when the timeout ends the read
LineEnd(buf) ==
    IF \E i \in 1..Len(buf) : buf[i] = 10
    THEN CHOOSE i \in 1..Len(buf) : buf[i] = 10 /\ \A j \in 1..(i - 1) : buf[j] # 10
    ELSE Len(buf)

KNOWN_CONTROL_TYPES_FROM_SENDER_AllTypes ==
    {ACK_TYPE_HANDSHAKE, QUERY_TYPE_SEND_REQUEST, ACK_TYPE_SEND_PERMIT, ACK_TYPE_DATA}

KNOWN_CONTROL_TYPES_FROM_SENDER == {QUERY_TYPE_SEND_REQUEST}

VALID_DATA_PKT_LENGTH_RANGE_Hex == MIN_FRAME_LEN..87

\* VALID_DATA_PKT_LENGTH_RANGE of the running receiver
VALID_DATA_PKT_LENGTH_RANGE ==
    IF receiver = "receiver"
    THEN MIN_FRAME_LEN..MAX_FRAME_LEN
    ELSE NEW_MIN_FRAME_CONTENT_LEN..NEW_FRAME_MAX_CONTENT_LEN

\* _send_control_response(s, seq, ack_type): the packet, and whether the
\* write took both bytes
Rsp(ack_type, seq, ok) == [type |-> ack_type, seq |-> seq, ok |-> ok]

\* the Connected loop calls _send_control_response as a statement: what the
\* write returned never reaches it
Discarded == "discarded"

PermitFor_AsDataAck(sequence_num, ok) == Rsp(ACK_TYPE_DATA, sequence_num, ok)

\* _send_control_response(ser, sequence_num, ACK_TYPE_SEND_PERMIT)
PermitFor(sequence_num, ok) == Rsp(ACK_TYPE_SEND_PERMIT, sequence_num, ok)

DataAckFor_LastSeq(actual_seq, ok) ==
    Rsp(ACK_TYPE_DATA, IF last_seq = actual_seq THEN 0 ELSE actual_seq, ok)

\* _send_control_response(ser, actual_seq, ACK_TYPE_DATA)
DataAckFor(actual_seq, ok) == Rsp(ACK_TYPE_DATA, actual_seq, ok)

\* deque(maxlen=PDR_WINDOW_MAXLEN): lost_count zeros, then a one, appended
WindowAfter(window, lost_count) ==
    LET all == window \o [i \in 1..lost_count |-> 0] \o <<1>>
        keep == Min(PDR_WINDOW_MAXLEN, Len(all))
    IN  SubSeq(all, Len(all) - keep + 1, Len(all))

\* the bytes of one read, each marked with what the loop took it for
Taken(bytes, cls) == [i \in 1..Len(bytes) |-> [b |-> bytes[i], cls |-> cls]]

\* classification of the first byte of a unit in the Connected loop
Classify(first_byte) ==
    IF first_byte \in KNOWN_CONTROL_TYPES_FROM_SENDER THEN "type"
    ELSE IF first_byte \in VALID_DATA_PKT_LENGTH_RANGE THEN "length"
    ELSE "ignored"

\* decoder.decode / decoder.decompress_data and the processing of its result:
\* a dict that is logged, None, or an exception raised while the dict is
\* processed
DecodeOutcomes == {"dict", "None", "raise"}

PcAfterDataBody_NoAck(full) == IF full THEN "data_decode" ELSE "data_fail"

\* if len(actual_content_bytes) == actual_content_len_from_length_byte: the
\* RSSI read and the Data ACK come next; else the failure branch
PcAfterDataBody(full) == IF full THEN "data_rssi" ELSE "data_fail"

\* whether the short-read branch empties the input buffer: only the control
\* branch of receiver.py does (if ser.in_waiting > 0: ser.read(ser.in_waiting))
DrainsAfterShortRead(branch) == receiver = "receiver" /\ branch = "ctrl"

\* the link delivers one unit into the input buffer
RxArriveWith(u) ==
    LET idle == rx_pc = "conn_top" /\ rx_buf = <<>> IN
    /\ rx_pc # "off"
    /\ rx_buf' = rx_buf \o OnSerial(u)
    /\ rx_syn_delivered' =
          (IF u = SYN_MSG /\ rx_pc = "hs_readline"
           THEN rx_syn_delivered + 1 ELSE rx_syn_delivered)
    /\ rx_conn_syn' =
          (IF u = SYN_MSG /\ idle THEN rx_conn_syn + 1 ELSE rx_conn_syn)
    /\ rx_syn_run' =
          (IF ~idle THEN rx_syn_run
           ELSE IF u = SYN_MSG THEN rx_syn_run + 1
           ELSE IF IsQueryUnit(u) \/ IsDataUnit(u) THEN 0
           ELSE rx_syn_run)
    /\ rx_arrived' = rx_arrived + 1
    /\ UNCHANGED <<rx_pc, handshake_success, received_message_count, receiver,
                   first_byte_val, actual_content_bytes, last_seq, pdr_window,
                   rx_out, rx_queries, rssi_enabled, stream, rx_trace,
                   rx_frames, rx_decodes>>

\* any unit may arrive, MaxUnits of them
RxArrive ==
    /\ stream = NoStream
    /\ rx_arrived < MaxUnits
    /\ \E u \in Units : RxArriveWith(u)
    /\ UNCHANGED <<tx_vars, cx_vars, lk_vars, pr_vars>>

\* handshake loop: if ser.in_waiting > 0: ser.reset_input_buffer()
RxHsResetInput ==
    /\ rx_pc = "hs_top"
    /\ rx_buf' = <<>>
    /\ rx_pc' = "hs_readline"
    /\ UNCHANGED <<handshake_success, received_message_count, receiver,
                   first_byte_val, actual_content_bytes, last_seq, pdr_window,
                   rx_out, rx_arrived, rx_syn_delivered, rx_queries,
                   rssi_enabled, stream, rx_trace, rx_frames, rx_decodes,
                   rx_conn_syn, rx_syn_run>>
    /\ UNCHANGED <<tx_vars, cx_vars, lk_vars, pr_vars>>

\* handshake loop: line = ser.readline() and the branches on it
RxHsReadlineWith(ok) ==
    /\ rx_pc = "hs_readline"
    /\ LET line == SubSeq(rx_buf, 1, LineEnd(rx_buf)) IN
        /\ rx_buf' = SubSeq(rx_buf, LineEnd(rx_buf) + 1, Len(rx_buf))
        /\ IF line = SYN_MSG
           THEN /\ rx_out' = Append(rx_out, Rsp(ACK_TYPE_HANDSHAKE, HANDSHAKE_ACK_SEQ, ok))
                /\ handshake_success' = ok
                /\ rx_pc' = (IF ok THEN "conn_top" ELSE "hs_top")
           ELSE \* timeout (empty line) or other data: ignored, wait again
                /\ rx_out' = rx_out
                /\ handshake_success' = handshake_success
                /\ rx_pc' = "hs_top"
    /\ UNCHANGED <<received_message_count, receiver,
                   first_byte_val, actual_content_bytes, last_seq, pdr_window,
                   rx_arrived, rx_syn_delivered, rx_queries,
                   rssi_enabled, stream, rx_trace, rx_frames, rx_decodes,
                   rx_conn_syn, rx_syn_run>>

\* the write of the Handshake-ACK takes both bytes or fails
RxHsReadline ==
    /\ \E ok \in BOOLEAN : RxHsReadlineWith(ok)
    /\ UNCHANGED <<tx_vars, cx_vars, lk_vars, pr_vars>>

\* Connected loop: first_byte_data = ser.read(1) and its classification
RxReadFirstByte ==
    /\ rx_pc = "conn_top"
    /\ rx_buf # <<>>
    /\ first_byte_val' = rx_buf[1]
    /\ rx_buf' = Tail(rx_buf)
    /\ rx_trace' = rx_trace \o Taken(<<rx_buf[1]>>, Classify(rx_buf[1]))
    /\ rx_pc' = (IF Classify(rx_buf[1]) = "type" THEN "ctrl_seq"
                 ELSE IF Classify(rx_buf[1]) = "length" THEN "data_body"
                 ELSE "conn_top")
    /\ UNCHANGED <<handshake_success, received_message_count, receiver,
                   actual_content_bytes, last_seq, pdr_window,
                   rx_out, rx_arrived, rx_syn_delivered, rx_queries,
                   rssi_enabled, stream, rx_frames, rx_decodes,
                   rx_conn_syn, rx_syn_run>>
    /\ UNCHANGED <<tx_vars, cx_vars, lk_vars, pr_vars>>

\* control branch: sequence_byte_data = ser.read(1), then the Permit
RxReadCtrlSeq ==
    /\ rx_pc = "ctrl_seq"
    /\ IF rx_buf # <<>>
       THEN /\ rx_out' = Append(rx_out, PermitFor(rx_buf[1], Discarded))
            /\ rx_queries' = Append(rx_queries, rx_buf[1])
            /\ rx_trace' = rx_trace \o Taken(<<rx_buf[1]>>, "seq")
            /\ rx_buf' = Tail(rx_buf)
            /\ rx_pc' = "conn_top"
       ELSE \* no SEQ byte before the timeout
            /\ UNCHANGED <<rx_out, rx_queries, rx_trace, rx_buf>>
            /\ rx_pc' = "ctrl_fail"
    /\ UNCHANGED <<handshake_success, received_message_count, receiver,
                   first_byte_val, actual_content_bytes, last_seq, pdr_window,
                   rx_arrived, rx_syn_delivered,
                   rssi_enabled, stream, rx_frames, rx_decodes,
                   rx_conn_syn, rx_syn_run>>
    /\ UNCHANGED <<tx_vars, cx_vars, lk_vars, pr_vars>>

\* control branch, no SEQ byte: the else branch up to "continue"
RxCtrlIncomplete ==
    /\ rx_pc = "ctrl_fail"
    /\ IF DrainsAfterShortRead("ctrl")
       THEN /\ rx_buf' = <<>>
            /\ rx_trace' = rx_trace \o Taken(rx_buf, "junk")
       ELSE UNCHANGED <<rx_buf, rx_trace>>
    /\ rx_pc' = "conn_top"
    /\ UNCHANGED <<handshake_success, received_message_count, receiver,
                   first_byte_val, actual_content_bytes, last_seq, pdr_window,
                   rx_out, rx_arrived, rx_syn_delivered, rx_queries,
                   rssi_enabled, stream, rx_frames, rx_decodes,
                   rx_conn_syn, rx_syn_run>>
    /\ UNCHANGED <<tx_vars, cx_vars, lk_vars, pr_vars>>

\* data branch: actual_content_bytes = ser.read(LENGTH)
RxReadDataBody ==
    /\ rx_pc = "data_body"
    /\ actual_content_bytes' = ReadBytes(rx_buf, first_byte_val)
    /\ rx_buf' = RestBytes(rx_buf, first_byte_val)
    /\ rx_trace' = rx_trace \o Taken(ReadBytes(rx_buf, first_byte_val), "body")
    /\ IF Len(actual_content_bytes') = first_byte_val
       THEN /\ rx_frames' = Append(rx_frames,
                                   [seq |-> actual_content_bytes'[1],
                                    payload |-> Tail(actual_content_bytes')])
       ELSE rx_frames' = rx_frames
    /\ rx_pc' = PcAfterDataBody(Len(actual_content_bytes') = first_byte_val)
    /\ UNCHANGED <<handshake_success, received_message_count, receiver,
                   first_byte_val, last_seq, pdr_window,
                   rx_out, rx_arrived, rx_syn_delivered, rx_queries,
                   rssi_enabled, stream, rx_decodes,
                   rx_conn_syn, rx_syn_run>>
    /\ UNCHANGED <<tx_vars, cx_vars, lk_vars, pr_vars>>

\* data branch, body short: the else branch up to "continue"
RxDataIncomplete ==
    /\ rx_pc = "data_fail"
    /\ IF DrainsAfterShortRead("data")
       THEN /\ rx_buf' = <<>>
            /\ rx_trace' = rx_trace \o Taken(rx_buf, "junk")
       ELSE UNCHANGED <<rx_buf, rx_trace>>
    /\ rx_pc' = "conn_top"
    /\ UNCHANGED <<handshake_success, received_message_count, receiver,
                   first_byte_val, actual_content_bytes, last_seq, pdr_window,
                   rx_out, rx_arrived, rx_syn_delivered, rx_queries,
                   rssi_enabled, stream, rx_frames, rx_decodes,
                   rx_conn_syn, rx_syn_run>>
    /\ UNCHANGED <<tx_vars, cx_vars, lk_vars, pr_vars>>

\* data branch, body complete: rssi_byte_data = ser.read(1), the Data ACK and
\* the PDR window (receiver_integrated)
RxDataFrame ==
    /\ rx_pc = "data_rssi"
    /\ rx_buf' = RestBytes(rx_buf, 1)
    /\ rx_trace' = rx_trace \o Taken(ReadBytes(rx_buf, 1), "rssi")
    /\ LET actual_seq == actual_content_bytes[1]
           seq_diff == (actual_seq - last_seq + 256) % 256
       IN
        /\ rx_out' = Append(rx_out, DataAckFor(actual_seq, Discarded))
        /\ IF receiver = "receiver_integrated"
           THEN /\ pdr_window' =
                      (IF last_seq # -1 /\ seq_diff > 1
                       THEN WindowAfter(pdr_window, seq_diff - 1)
                       ELSE WindowAfter(pdr_window, 0))
                /\ last_seq' = actual_seq
           ELSE UNCHANGED <<pdr_window, last_seq>>
    /\ rx_pc' = "data_decode"
    /\ UNCHANGED <<handshake_success, received_message_count, receiver,
                   first_byte_val, actual_content_bytes,
                   rx_arrived, rx_syn_delivered, rx_queries,
                   rssi_enabled, stream, rx_frames, rx_decodes,
                   rx_conn_syn, rx_syn_run>>
    /\ UNCHANGED <<tx_vars, cx_vars, lk_vars, pr_vars>>

\* data branch: the try block around the decode; the count is advanced as
\* soon as the decoder returned a dict, before the dict is processed
RxDecodeWith(decoded) ==
    /\ rx_pc = "data_decode"
    /\ rx_decodes' = Append(rx_decodes, decoded)
    /\ received_message_count' =
          (IF decoded = "None" THEN received_message_count
                               ELSE received_message_count + 1)
    /\ rx_pc' = "conn_top"
    /\ UNCHANGED <<handshake_success, receiver,
                   first_byte_val, actual_content_bytes, last_seq, pdr_window,
                   rx_buf, rx_out, rx_arrived, rx_syn_delivered, rx_queries,
                   rssi_enabled, stream, rx_trace, rx_frames,
                   rx_conn_syn, rx_syn_run>>

\* the decoder returns a dict or None, or the processing of the dict raises
RxDecode ==
    /\ \E decoded \in DecodeOutcomes : RxDecodeWith(decoded)
    /\ UNCHANGED <<tx_vars, cx_vars, lk_vars, pr_vars>>

NextRx ==
    \/ RxArrive
    \/ RxHsResetInput
    \/ RxHsReadline
    \/ RxReadFirstByte
    \/ RxReadCtrlSeq
    \/ RxCtrlIncomplete
    \/ RxReadDataBody
    \/ RxDataIncomplete
    \/ RxDataFrame
    \/ RxDecode

SpecRx == InitRx /\ [][NextRx]_vars

-----------------------------------------------------------------------------
(* Receiver handed one whole stream: the handshake, then every byte of the
   stream waiting in the input buffer before the Connected loop reads *)

MaxStream == 2

\* a payload chunk of len bytes
Payload(len) == [i \in 1..len |-> i]

\* the Data frames the transmitter writes: the shortest payload, the shortest
\* one receiver_integrated takes, the longest; the ends of the SEQ range
StreamFrames ==
    { RawDataPacket(FrameContent(seq, Payload(len))) :
          seq \in {0, 255}, len \in {1, NEW_MIN_FRAME_CONTENT_LEN - 1, MAX_FRAME_LEN - 1} }

\* the Query packets the transmitter writes
StreamQueries == { ControlPacket(QUERY_TYPE_SEND_REQUEST, seq) : seq \in {2, 80} }

StreamUnits == StreamFrames \cup StreamQueries

\* bytes that are no control TYPE, not the first SYN byte and no LENGTH
GarbageBytes == {1, 153}

UnitSeqs == UNION { [1..k -> StreamUnits] : k \in 1..MaxStream }

\* a stream of units, and at most one byte (junk) inserted after the first
\* gap units
Streams ==
    { [units |-> us, gap |-> -1, junk |-> -1] : us \in UnitSeqs }
    \cup UNION { { [units |-> us, gap |-> g, junk |-> j] :
                       g \in 0..Len(us), j \in GarbageBytes } : us \in UnitSeqs }

RECURSIVE Flatten(_)
\* the units as the radio hands them over, one after the other
Flatten(us) == IF us = <<>> THEN <<>> ELSE OnSerial(Head(us)) \o Flatten(Tail(us))

\* the stream without the inserted byte
CleanBytes(st) == Flatten(st.units)

\* the stream as it arrives
StreamBytes(st) ==
    IF st.gap = -1
    THEN Flatten(st.units)
    ELSE Flatten(SubSeq(st.units, 1, st.gap)) \o <<st.junk>>
             \o Flatten(SubSeq(st.units, st.gap + 1, Len(st.units)))

RECURSIVE Drain(_)
\* the responses of the Connected loop to bytes that all wait in the input
\* buffer: a TYPE byte takes the next byte as SEQ and is answered by a Permit;
\* a LENGTH byte takes LENGTH bytes and one more (the RSSI read) and is
\* answered by a Data ACK; a short read ends the buffer; any other byte is
\* passed over
Drain(buf) ==
    IF buf = <<>> THEN <<>>
    ELSE LET rest == Tail(buf) IN
         IF Classify(buf[1]) = "type"
         THEN IF rest = <<>> THEN <<>>
              ELSE <<PermitFor(rest[1], Discarded)>> \o Drain(Tail(rest))
         ELSE IF Classify(buf[1]) = "length"
         THEN IF Len(rest) < buf[1] THEN <<>>
              ELSE <<DataAckFor(rest[1], Discarded)>>
                       \o Drain(RestBytes(RestBytes(rest, buf[1]), 1))
         ELSE Drain(rest)

\* receive_loop() entered; the stream the transmitter will send is fixed
StreamInit ==
    /\ rx_pc = "hs_top"
    /\ receiver \in {"receiver", "receiver_integrated"}
    /\ rssi_enabled \in BOOLEAN
    /\ stream \in Streams
    /\ RxFresh

InitStream == StreamInit /\ TxOff /\ CxOff /\ LkOff /\ PrOff

\* the transmitter's SYN arrives while the receiver waits in readline
StreamSyn ==
    /\ rx_pc = "hs_readline"
    /\ rx_arrived = 0
    /\ rx_buf' = rx_buf \o SYN_MSG
    /\ rx_arrived' = 1
    /\ rx_syn_delivered' = rx_syn_delivered + 1
    /\ UNCHANGED <<rx_pc, handshake_success, received_message_count, receiver,
                   first_byte_val, actual_content_bytes, last_seq, pdr_window,
                   rx_out, rx_queries, rssi_enabled, stream, rx_trace,
                   rx_frames, rx_decodes, rx_conn_syn, rx_syn_run>>
    /\ UNCHANGED <<tx_vars, cx_vars, lk_vars, pr_vars>>

\* the whole stream arrives before the Connected loop reads its first byte
StreamHandOver ==
    /\ rx_pc = "conn_top"
    /\ rx_arrived = 1
    /\ rx_buf' = rx_buf \o StreamBytes(stream)
    /\ rx_arrived' = 2
    /\ UNCHANGED <<rx_pc, handshake_success, received_message_count, receiver,
                   first_byte_val, actual_content_bytes, last_seq, pdr_window,
                   rx_out, rx_syn_delivered, rx_queries, rssi_enabled, stream,
                   rx_trace, rx_frames, rx_decodes, rx_conn_syn, rx_syn_run>>
    /\ UNCHANGED <<tx_vars, cx_vars, lk_vars, pr_vars>>

NextStream ==
    \/ StreamSyn
    \/ StreamHandOver
    \/ RxHsResetInput
    \/ RxHsReadline
    \/ RxReadFirstByte
    \/ RxReadCtrlSeq
    \/ RxCtrlIncomplete
    \/ RxReadDataBody
    \/ RxDataIncomplete
    \/ RxDataFrame
    \/ RxDecode

SpecStream == InitStream /\ [][NextStream]_vars

-----------------------------------------------------------------------------
(***************************************************************************)
(* The codec on its own: one call of create_frame whose frame is made into *)
(* a data packet and decoded by the receiver, or one call of decode on an  *)
(* arbitrary payload.                                                      *)
(***************************************************************************)

AllPaths == {_FIELDS[k].path : k \in 1..Len(_FIELDS)}

\* a sample inside every range; angle.pitch and angle.yaw sit on the two
\* ends of the int16 range
BaseVal(q) ==
    CASE q = "ts"           -> Num(1700000000, 1)
      [] q = "accel.az"     -> Num(1, 1)
      [] q = "gyro.gx"      -> Num(-327, 100)
      [] q = "angle.roll"   -> Num(25, 2)
      [] q = "angle.pitch"  -> Num(-32768, 10)
      [] q = "angle.yaw"    -> Num(32767, 10)
      [] q = "gps.lat"      -> Num(75, 2)
      [] q = "gps.lon"      -> Num(-127, 1)
      [] q = "gps.altitude" -> Num(3005, 100)
      [] OTHER              -> Num(0, 1)

\* one number of the base sample replaced: values between two quantisation
\* steps, values on and just beyond the ends of the integer ranges
Variations ==
    { <<"ts", Num(1700000000, 1)>>,     <<"ts", Num(129, 10)>>,
      <<"ts", Num(-3, 2)>>,
      <<"accel.ax", Num(12349, 10000)>>, <<"accel.ax", Num(-12349, 10000)>>,
      <<"accel.ay", Num(327679, 10000)>>, <<"accel.ay", Num(32768, 1000)>>,
      <<"accel.az", Num(-32769, 1000)>>,
      <<"gyro.gz", Num(-99, 100)>>,      <<"gyro.gz", Num(32768, 10)>>,
      <<"gps.altitude", Num(-1999, 100)>>,
      <<"gps.lat", Num(-1, 2)>>,         <<"gps.lon", Num(0, 1)>> }

\* what sr.get_sensor_data() can hand over: a full dict, or one lacking a key
SensorSamples ==
    { [keys |-> AllPaths,
       val  |-> [q \in AllPaths |-> IF q = v[1] THEN v[2] ELSE BaseVal(q)]]
        : v \in Variations }
    \cup { [keys |-> AllPaths \ {"gps.altitude"},
            val  |-> [q \in AllPaths |-> BaseVal(q)]] }

MessageSeqs == {0, 255, 256, 300}
CompressionModes == {"raw", "bam", "none", "zlib"}
PayloadSizes == {-1, 0, 1, 8, 56, 57, 60}

\* what os.urandom(size) can hand back, three of the 256^size outcomes
Urandom(size) ==
    IF size <= 0 THEN { <<>> }
    ELSE { [i \in 1..size |-> 0], [i \in 1..size |-> 204],
           [i \in 1..size |-> (37 * i + 11) % 256] }

Methods ==
    {"none", "zlib", "bam", "dummy_24b", "dummy_16b", "dummy_8b", "raw", "lz4"}

GoodPacked == _pack_data([keys |-> AllPaths, val |-> [q \in AllPaths |-> BaseVal(q)]])

Fill(len, b) == [i \in 1..len |-> b]

\* zlib streams that decompress to 32 bytes
GoodStreams == { zlib_stored(GoodPacked), zlib_stored(GoodPacked) \o <<0, 0>> }

\* zlib streams that decompress to another length
ShortStreams == { zlib_stored(<<>>), zlib_stored(Front(GoodPacked)),
                  zlib_stored(GoodPacked \o <<0>>) }

\* byte strings zlib.decompress rejects: empty, cut short, a wrong checksum,
\* a wrong header, a block header whose LEN and ~LEN disagree
BrokenStreams ==
    { <<>>, <<120, 1, 1>>, Front(zlib_stored(GoodPacked)),
      Front(zlib_stored(GoodPacked)) \o <<0>>,
      GoodPacked, Fill(8, 204),
      <<120, 1, 1, 2, 0, 0, 0, 7, 10, 0, 26, 0, 18>> }

\* payloads handed to decode
DecodePayloads ==
    GoodStreams \cup ShortStreams \cup BrokenStreams
    \cup { <<17>>, Fill(16, 204), Fill(24, 204), Fill(calcsize - 1, 17),
           Fill(calcsize, 17), Fill(calcsize + 1, 17) }

InitCodec ==
    /\ TxOff
    /\ RxOff
    /\ LkOff /\ PrOff
    /\ cx_pc = "start"
    /\ cx_args = NoArgs
    /\ cx_payload_chunk = None
    /\ cx_frame = None
    /\ cx_packet = <<>>
    /\ cx_decode_args = NoDecodeArgs
    /\ cx_decoded = None

\* encoder.create_frame(sample, message_seq, compression_mode, payload_size)
CxCreateFrame ==
    /\ cx_pc = "start"
    /\ \E sample \in SensorSamples, message_seq \in MessageSeqs,
          compression_mode \in CompressionModes, payload_size \in PayloadSizes :
        \E urandom \in Urandom(payload_size) :
            /\ cx_args' = [sample |-> sample, message_seq |-> message_seq,
                           compression_mode |-> compression_mode,
                           payload_size |-> payload_size, urandom |-> urandom]
            /\ cx_payload_chunk' =
                  PayloadChunk(sample, compression_mode, payload_size, urandom)
            /\ cx_frame' = create_frame(sample, message_seq, compression_mode,
                                        payload_size, urandom)
    /\ cx_pc' = "framed"
    /\ UNCHANGED <<cx_packet, cx_decode_args, cx_decoded>>
    /\ UNCHANGED <<tx_vars, rx_vars, lk_vars, pr_vars>>

\* no frame came back: the send of the message is given up
CxNoFrame ==
    /\ cx_pc = "framed"
    /\ cx_frame = None
    /\ cx_pc' = "skipped"
    /\ UNCHANGED <<cx_args, cx_payload_chunk, cx_frame, cx_packet,
                   cx_decode_args, cx_decoded>>
    /\ UNCHANGED <<tx_vars, rx_vars, lk_vars, pr_vars>>

\* raw_data_packet = bytes([frame_content_len]) + frame content, handed to
\* s.write
CxWritePacket ==
    /\ cx_pc = "framed"
    /\ cx_frame # None
    /\ cx_packet' = RawDataPacket(cx_frame.bytes)
    /\ cx_pc' = "written"
    /\ UNCHANGED <<cx_args, cx_payload_chunk, cx_frame, cx_decode_args,
                   cx_decoded>>
    /\ UNCHANGED <<tx_vars, rx_vars, lk_vars, pr_vars>>

\* receive_loop, data branch: the body read in full, the payload is
\* actual_content_bytes[1:] and goes to decoder.decode(payload, method)
CxReceivePacket ==
    /\ cx_pc = "written"
    /\ \E method \in Methods :
        LET content == Tail(cx_packet)
            payload == Tail(content)
        IN  /\ cx_decode_args' = [payload |-> payload, method |-> method]
            /\ cx_decoded' = decode(payload, method)
    /\ cx_pc' = "decoded"
    /\ UNCHANGED <<cx_args, cx_payload_chunk, cx_frame, cx_packet>>
    /\ UNCHANGED <<tx_vars, rx_vars, lk_vars, pr_vars>>

\* decoder.decode(payload, method) on any payload
CxDecode ==
    /\ cx_pc = "start"
    /\ \E payload \in DecodePayloads, method \in Methods :
        /\ cx_decode_args' = [payload |-> payload, method |-> method]
        /\ cx_decoded' = decode(payload, method)
    /\ cx_pc' = "decoded"
    /\ UNCHANGED <<cx_args, cx_payload_chunk, cx_frame, cx_packet>>
    /\ UNCHANGED <<tx_vars, rx_vars, lk_vars, pr_vars>>

NextCodec ==
    \/ CxCreateFrame
    \/ CxNoFrame
    \/ CxWritePacket
    \/ CxReceivePacket
    \/ CxDecode

SpecCodec == InitCodec /\ [][NextCodec]_vars

-----------------------------------------------------------------------------
(* Properties of the transmitter, stated for Spec *)

SeqOf(w) == w.pkt[2]
MsgEnded == tx_pc = "msg_top" /\ msg_idx >= 1 /\ outcomes[msg_idx] \in {"Delivered", "Dropped"}
InDataPhase == tx_pc \in {"data_loop", "ack_read", "data_exit"}

\* C1: a Data frame with SEQ s is handed to the port only when a Permit
\* (0x55, s) has been read for the current message; a message for which no
\* such Permit was read has no Data frame on the wire, also once it has ended.
C1_DataOnlyAfterPermit ==
    /\ DataOn(tx_wire) # {} => "match" \in permit_reads
    /\ \A i \in DataOn(tx_wire) : SeqOf(tx_wire[i]) = raw_data_packet[2]
    /\ (MsgEnded /\ "match" \notin permit_reads) => DataOn(tx_wire) = {}

C1_Witness ==
    /\ DataOn(tx_wire) # {}
    /\ "match" \in permit_reads
    /\ "wrong_seq" \in permit_reads

\* C2: in reliable mode, when the previous message was Delivered with SEQ s,
\* every Query of the current message carries (s + 1) mod 256.
C2_NextQueryCarriesSuccessor ==
    (/\ mode = "reliable"
     /\ msg_idx >= 2
     /\ outcomes[msg_idx - 1] = "Delivered")
    => \A i \in QueriesOn(tx_wire) : SeqOf(tx_wire[i]) = NextSeq(msg_seq[msg_idx - 1])

\* C3: stop-and-wait: every Query and Data packet written for the current
\* message carries one and the same SEQ, and a Query is written only when
\* every earlier message has its outcome (Delivered, Dropped or skipped).
C3_StopAndWait ==
    /\ \A i, j \in QueriesOn(tx_wire) \cup DataOn(tx_wire) :
          SeqOf(tx_wire[i]) = SeqOf(tx_wire[j])
    /\ QueriesOn(tx_wire) # {} =>
          /\ \A k \in 1..(msg_idx - 1) : outcomes[k] # "none"
          /\ \A k \in (msg_idx + 1)..(MaxMsgs + 1) : msg_seq[k] = -1

C3_Witness ==
    /\ msg_idx = 2
    /\ outcomes[1] = "Dropped"
    /\ QueriesOn(tx_wire) # {}
    /\ Cardinality(DataOn(tx_wire)) = 2

\* C4: once the Permit was received, a message for which no Data ACK of its
\* own arrives ends Dropped after exactly effective_retry_data_ack Data
\* transmissions; in PDR mode that is exactly one.
C4_ExactlyRDataTransmissions ==
    (MsgEnded /\ "match" \in permit_reads /\ "match" \notin ack_reads)
    => /\ Cardinality(DataOn(tx_wire)) = effective_retry_data_ack
       /\ outcomes[msg_idx] = "Dropped"
       /\ mode = "PDR" => Cardinality(DataOn(tx_wire)) = 1
       /\ mode = "reliable" => Cardinality(DataOn(tx_wire)) = RETRY_DATA_ACK

C4_Witness ==
    /\ MsgEnded
    /\ mode = "reliable"
    /\ "match" \in permit_reads
    /\ ack_reads = {"timeout"}
    /\ Cardinality(DataOn(tx_wire)) = 3
    /\ outcomes[msg_idx] = "Dropped"

\* C5: a message is Delivered only if a read awaiting the Data ACK returned
\* exactly (0xAA, SEQ of the message); every other read leaves it undelivered
\* and has used one of the effective_retry_data_ack attempts.
C5_DeliveredOnlyOnMatchingAck ==
    /\ (MsgEnded /\ outcomes[msg_idx] = "Delivered") => "match" \in ack_reads
    /\ (InDataPhase /\ "match" \notin ack_reads) => ~data_ack_received
    /\ InDataPhase =>
          /\ n_ack_reads <= data_tx_attempts
          /\ data_tx_attempts <= effective_retry_data_ack
    /\ (MsgEnded /\ "match" \in permit_reads /\ "match" \notin ack_reads)
          => outcomes[msg_idx] = "Dropped"

C5_Witness ==
    /\ MsgEnded
    /\ outcomes[msg_idx] = "Delivered"
    /\ ack_reads = {"wrong_seq", "wrong_type", "match"}

\* C6: when every attempt's read returns a Permit whose SEQ is not the
\* Query's, each attempt logs PERMIT_ACK_INVALID, the Query is sent again
\* until effective_retry_query_permit attempts are used, then exactly one
\* PERMIT_FINAL_FAIL row with ack_received_final = false is logged, the
\* message is Dropped and no Data frame is written.
C6_WrongSeqPermitExhaustsBudget ==
    (/\ tx_pc \in {"query_loop", "query_exit", "msg_top"}
     /\ permit_reads = {"wrong_seq"}
     /\ n_permit_reads = query_attempts)
    => /\ Count(tx_log, "PERMIT_ACK_INVALID") = query_attempts
       /\ Cardinality(QueriesOn(tx_wire)) = query_attempts
       /\ DataOn(tx_wire) = {}
       /\ ~permission_received
       /\ query_attempts < effective_retry_query_permit =>
             /\ Count(tx_log, "PERMIT_FINAL_FAIL") = 0
             /\ tx_pc = "query_loop"
             /\ QueryLoopCond
       /\ query_attempts >= effective_retry_query_permit =>
             /\ query_attempts = effective_retry_query_permit
             /\ Count(tx_log, "PERMIT_FINAL_FAIL") = 1
             /\ tx_log[Len(tx_log)].ev = "PERMIT_FINAL_FAIL"
             /\ tx_log[Len(tx_log)].final = "false"
       /\ tx_pc = "msg_top" =>
             /\ outcomes[msg_idx] = "Dropped"
             /\ query_attempts = effective_retry_query_permit

C6_Witness ==
    /\ tx_pc = "msg_top"
    /\ mode = "reliable"
    /\ permit_reads = {"wrong_seq"}
    /\ n_permit_reads = 3
    /\ outcomes[msg_idx] = "Dropped"
    /\ Count(tx_log, "PERMIT_FINAL_FAIL") = 1

\* C7: the handshake writes at most RETRY_HANDSHAKE SYN beacons, returns
\* True only after reading exactly (0x00, 0x00), and when it returns False
\* send_data returns 0 and no Query or Data packet is written in the session.
C7_HandshakeBudgetAndFailure ==
    /\ attempt <= RETRY_HANDSHAKE
    /\ Cardinality(SynOn(tx_wire)) <= RETRY_HANDSHAKE
    /\ hs_result = "none" => Cardinality(SynOn(tx_wire)) = attempt
    /\ hs_result = "True" => hs_ack_read
    /\ hs_result # "True" => ~session_sent
    /\ hs_result = "False" =>
          /\ ~hs_ack_read
          /\ tx_pc \in {"setup", "done"}
          /\ tx_pc = "done" => final_return_value = 0

C7_Witness ==
    /\ hs_result = "False"
    /\ tx_pc = "done"
    /\ final_return_value = 0
    /\ Cardinality(SynOn(tx_wire)) = 3

\* C8: after a successful handshake the first message's Query and Data
\* packets carry SEQ 0x00.
C8_FirstMessageCarriesSeqZero ==
    (hs_result = "True" /\ msg_idx = 1)
    => \A i \in QueriesOn(tx_wire) \cup DataOn(tx_wire) : SeqOf(tx_wire[i]) = 0

-----------------------------------------------------------------------------
(* Properties of the receiver, stated for SpecRx *)

IsPermit(r) == r.type = ACK_TYPE_SEND_PERMIT
SeqsOf(rsps) == [i \in 1..Len(rsps) |-> rsps[i].seq]
AwaitingSyn == rx_pc \in {"hs_top", "hs_readline"}

\* C9: while awaiting SYN the receiver answers a SYN beacon with
\* Handshake-ACK (0x00, 0x00) and becomes Connected: once everything the
\* link delivered is consumed and every response write succeeded, a receiver
\* still awaiting SYN has been delivered no SYN beacon during its waits; it
\* emits nothing but Handshake-ACKs before it is Connected, and it is
\* Connected only after a SYN beacon was delivered.
C9_SynAnsweredWhileAwaitingSyn ==
    /\ (/\ rx_pc = "hs_top"
        /\ rx_buf = <<>>
        /\ \A i \in 1..Len(rx_out) : rx_out[i].ok)
       => rx_syn_delivered = 0
    /\ AwaitingSyn =>
          \A i \in 1..Len(rx_out) :
              rx_out[i].type = ACK_TYPE_HANDSHAKE /\ rx_out[i].seq = HANDSHAKE_ACK_SEQ
    /\ handshake_success => rx_syn_delivered >= 1

\* C10: in the Connected loop the Permits emitted are, in order, exactly the
\* Queries fully read, each echoing its SEQ; the step that reads a Query's
\* SEQ byte emits that one Permit and changes neither the received count nor
\* the phase (nor the PDR window).
C10_QueryAnsweredByOnePermit ==
    /\ [](SeqsOf(SelectSeq(rx_out, IsPermit)) = rx_queries)
    /\ [][rx_queries' # rx_queries =>
            /\ Len(rx_out') = Len(rx_out) + 1
            /\ rx_out'[Len(rx_out')].type = ACK_TYPE_SEND_PERMIT
            /\ rx_out'[Len(rx_out')].seq = rx_queries'[Len(rx_queries')]
            /\ rx_pc' = "conn_top"
            /\ UNCHANGED <<handshake_success, received_message_count, last_seq, pdr_window>>
         ]_vars

C10_Witness ==
    /\ handshake_success
    /\ rx_queries = <<80, 1>>
    /\ Len(rx_out) = 3

IsDataAck(r) == r.type = ACK_TYPE_DATA
IsHandshakeAck(r) == r.type = ACK_TYPE_HANDSHAKE
FrameSeqs == [i \in 1..Len(rx_frames) |-> rx_frames[i].seq]
FirstByteClasses == {"type", "length", "ignored"}
Quiescent == rx_pc = "conn_top" /\ rx_buf = <<>>

\* C11: every Data frame whose body the Connected loop read in full is
\* answered with DataAck (0xAA, SEQ of that frame): the DataAcks emitted are,
\* in order, the SEQs of the frames read (all but the one whose ACK step is
\* next), a frame repeating the SEQ of the one before it included.
C11_EveryDataFrameAcked ==
    LET acks == SeqsOf(SelectSeq(rx_out, IsDataAck)) IN
    IF rx_pc = "data_rssi"
    THEN acks = SubSeq(FrameSeqs, 1, Len(FrameSeqs) - 1)
    ELSE acks = FrameSeqs

C11_Witness ==
    /\ receiver = "receiver_integrated"
    /\ Len(rx_frames) = 2
    /\ rx_frames[1].seq = rx_frames[2].seq
    /\ last_seq = rx_frames[2].seq
    /\ SeqsOf(SelectSeq(rx_out, IsDataAck)) = <<rx_frames[1].seq, rx_frames[2].seq>>

\* C12: the DataAck of a frame is emitted before its payload is decoded:
\* whenever a decode is about to run, or has run with any outcome (a dict,
\* None, an exception), the DataAck carrying that frame's SEQ is already
\* among the responses, and the decode step itself emits nothing.
C12_AckBeforeDecode ==
    LET acks == SeqsOf(SelectSeq(rx_out, IsDataAck)) IN
    /\ Len(rx_decodes) <= Len(acks)
    /\ rx_pc = "data_decode" =>
          /\ Len(acks) = Len(rx_decodes) + 1
          /\ acks[Len(acks)] = actual_content_bytes[1]
    /\ \A i \in 1..Len(rx_decodes) : acks[i] = rx_frames[i].seq

C12_Witness ==
    /\ {"None", "raise"} \subseteq {rx_decodes[i] : i \in 1..Len(rx_decodes)}
    /\ Len(SelectSeq(rx_out, IsDataAck)) = Len(rx_decodes)
    /\ rx_pc = "conn_top"

\* C13: every SYN beacon delivered to the idle Connected loop is answered
\* with Handshake-ACK (0x00, 0x00), and after three of them in a row the
\* receiver is awaiting SYN again: once the loop has consumed all it was
\* given, the Handshake-ACKs emitted since it became Connected are as many as
\* those beacons, and fewer than three of them came in a row.
C13_UnexpectedSynAnswered ==
    Quiescent =>
        LET k == CHOOSE i \in 1..Len(rx_out) : IsHandshakeAck(rx_out[i]) /\ rx_out[i].ok
        IN  /\ Cardinality({i \in (k + 1)..Len(rx_out) : IsHandshakeAck(rx_out[i])}) = rx_conn_syn
            /\ rx_syn_run < 3

C15_FourControlTypes ==
    \A i \in 1..Len(rx_trace) :
        (/\ rx_trace[i].cls \in FirstByteClasses
         /\ rx_trace[i].b \in {ACK_TYPE_HANDSHAKE, QUERY_TYPE_SEND_REQUEST,
                               ACK_TYPE_SEND_PERMIT, ACK_TYPE_DATA})
        => rx_trace[i].cls = "type"

\* C15 (amended): a first byte is taken as a control TYPE exactly when it is
\* 0x50; the byte read next, when one arrives in time, is consumed as its SEQ
\* and never classified, and only such bytes are consumed as SEQ; first bytes
\* 0x00, 0x55 and 0xAA are ignored.
C15_OnlyQueryIsControlType ==
    \A i \in 1..Len(rx_trace) :
        /\ rx_trace[i].cls \in FirstByteClasses =>
              (rx_trace[i].cls = "type" <=> rx_trace[i].b = QUERY_TYPE_SEND_REQUEST)
        /\ (rx_trace[i].cls \in FirstByteClasses
            /\ rx_trace[i].b \in {ACK_TYPE_HANDSHAKE, ACK_TYPE_SEND_PERMIT, ACK_TYPE_DATA})
              => rx_trace[i].cls = "ignored"
        /\ rx_trace[i].cls = "seq" => (i > 1 /\ rx_trace[i - 1].cls = "type")
        /\ (rx_trace[i].cls = "type" /\ i < Len(rx_trace)) =>
              rx_trace[i + 1].cls \in {"seq", "junk"} \cup FirstByteClasses
        /\ (rx_trace[i].cls = "type" /\ i = Len(rx_trace)) =>
              rx_pc \in {"ctrl_seq", "ctrl_fail", "conn_top"}
        /\ (rx_trace[i].cls = "type" /\ i = Len(rx_trace) /\ rx_pc = "conn_top") =>
              rx_queries = SeqsOf(SelectSeq(rx_out, IsPermit))

C15_Witness ==
    \E i, j \in 1..Len(rx_trace) :
        /\ i < Len(rx_trace) /\ j < Len(rx_trace)
        /\ rx_trace[i] = [b |-> QUERY_TYPE_SEND_REQUEST, cls |-> "type"]
        /\ rx_trace[i + 1].cls = "seq"
        /\ rx_trace[j] = [b |-> ACK_TYPE_SEND_PERMIT, cls |-> "ignored"]
        /\ rx_trace[j + 1] = [b |-> 6, cls |-> "length"]

\* C16: the five bytes of a SYN beacon met by the Connected loop at a unit
\* boundary form one unit: none of them is taken as a data LENGTH, and the
\* byte after the beacon is classified as the first byte of the next unit.
C16_SynIsOneUnit ==
    \A i \in 1..Len(rx_trace) :
        (/\ i + 3 <= Len(rx_trace)
         /\ rx_trace[i].cls \in FirstByteClasses
         /\ [j \in 1..4 |-> rx_trace[i + j - 1].b] = SubSeq(SYN_MSG, 1, 4))
        => /\ \A j \in i..Min(i + 4, Len(rx_trace)) : rx_trace[j].cls # "length"
           /\ i + 5 <= Len(rx_trace) => rx_trace[i + 5].cls \in FirstByteClasses

\* C17: a byte is consumed as the RSSI byte after a Data frame body exactly
\* when the radio is configured to append one: without that configuration
\* no byte is ever taken as RSSI, with it every frame read is followed by
\* one.
C17_RssiOnlyIfConfigured ==
    /\ ~rssi_enabled => \A i \in 1..Len(rx_trace) : rx_trace[i].cls # "rssi"
    /\ (rssi_enabled /\ stream = NoStream) =>
          Cardinality({i \in 1..Len(rx_trace) : rx_trace[i].cls = "rssi"})
              = Len(SelectSeq(rx_out, IsDataAck))

\* C20: the handling of a short read (a TYPE without its SEQ byte, a LENGTH
\* without its whole body) emits no response, leaves the phase and the
\* received count alone, and leaves the input buffer empty.
C20_ShortReadDiscardsResidue ==
    [][(rx_pc \in {"ctrl_fail", "data_fail"} /\ rx_pc' = "conn_top") =>
          /\ rx_buf' = <<>>
          /\ rx_out' = rx_out
          /\ UNCHANGED <<handshake_success, received_message_count>>
      ]_vars

-----------------------------------------------------------------------------
(* Properties of the receiver on a whole stream, stated for SpecStream *)

\* the stream was handed over and the Connected loop has read all of it
StreamDone == rx_arrived = 2 /\ rx_pc = "conn_top" /\ rx_buf = <<>>

\* what the receiver emitted after the Handshake ACK
ConnectedResponses == Tail(rx_out)

\* the stream is one Data frame and nothing else
SingleFrame == Len(stream.units) = 1 /\ IsDataUnit(stream.units[1]) /\ stream.gap = -1

\* Drain gives the responses the Connected loop emits on the bytes it was
\* handed
DrainIsTheLoop == StreamDone => ConnectedResponses = Drain(StreamBytes(stream))

\* C18: the bytes the transmitter writes for a Data frame with any SEQ and a
\* payload of 1..56 bytes are parsed by the receiver as exactly one Data frame
\* with that SEQ and that payload, and as nothing else: no byte of the frame
\* is passed over or taken for a control packet.
C18_FramingRoundTrip ==
    (SingleFrame /\ StreamDone) =>
        LET u == stream.units[1] IN
        /\ rx_frames = <<[seq |-> u[2], payload |-> SubSeq(u, 3, Len(u))]>>
        /\ rx_queries = <<>>
        /\ \A i \in 1..Len(rx_trace) : rx_trace[i].cls \in {"length", "body", "rssi"}

\* C19: when bytes that are no TYPE, no SYN byte and no LENGTH are inserted
\* between the units of a stream of well-formed Query packets and Data frames,
\* the Connected receiver emits the same Permit and Data ACK responses as for
\* the stream without the inserted bytes.
C19_GarbageResynchronisation ==
    StreamDone => ConnectedResponses = Drain(CleanBytes(stream))

-----------------------------------------------------------------------------
(* Further properties of the transmitter, stated for Spec *)

DataEvents ==
    {"DATA_SENT", "DATA_TX_FAIL", "DATA_FINAL_FAIL", "DATA_ACK_OK",
     "DATA_ACK_INVALID", "DATA_ACK_UNPACK_FAIL", "DATA_ACK_TIMEOUT",
     "DATA_ACK_FINAL_FAIL"}
IsDataRow(r) == r.ev \in DataEvents
DataRows == SelectSeq(tx_log, IsDataRow)
DataWrites == SelectSeq(tx_wire, IsData)

\* the first read awaiting the Data ACK returned nothing, the second the ACK
\* of the message, and the port took every Data frame written
FirstAckLostSecondArrived ==
    /\ mode = "reliable"
    /\ n_ack_reads = 2
    /\ ack_reads = {"timeout", "match"}
    /\ \A i \in 1..Len(DataWrites) : DataWrites[i].ok

\* C23: in reliable mode, when the first Data ACK of a message is lost and
\* the second arrives, the Data frame is written twice, byte for byte the
\* same and with the same SEQ, no Query is written after the first Data
\* frame, and the message's Data rows in the event log are, in order,
\* DATA_SENT (attempt 1), DATA_ACK_TIMEOUT (attempt 1), DATA_SENT (attempt 2),
\* DATA_ACK_OK (attempt 2, total_attempts_final 2, ack_received_final true).
C23_RetransmissionAfterLostAck ==
    FirstAckLostSecondArrived =>
        LET s == frame_seq_for_ack_handling IN
        /\ Len(DataWrites) = 2
        /\ DataWrites[1].pkt = DataWrites[2].pkt
        /\ SeqOf(DataWrites[1]) = s
        /\ \A i \in QueriesOn(tx_wire), j \in DataOn(tx_wire) : i < j
        /\ DataRows = << Ev(s, 1, "DATA_SENT"),
                         Ev(s, 1, "DATA_ACK_TIMEOUT"),
                         Ev(s, 2, "DATA_SENT"),
                         [seq |-> s, attempt |-> 2, ev |-> "DATA_ACK_OK",
                          total |-> 2, final |-> "true"] >>

C23_Witness ==
    /\ FirstAckLostSecondArrived
    /\ MsgEnded
    /\ outcomes[msg_idx] = "Delivered"
    /\ Len(DataWrites) = 2

AttemptFailEvents ==
    {"HANDSHAKE_SYN_FAIL", "HANDSHAKE_ACK_INVALID", "HANDSHAKE_ACK_UNPACK_FAIL",
     "HANDSHAKE_ACK_TIMEOUT",
     "QUERY_TX_FAIL", "PERMIT_ACK_INVALID", "PERMIT_ACK_UNPACK_FAIL",
     "PERMIT_ACK_TIMEOUT",
     "DATA_TX_FAIL", "DATA_ACK_INVALID", "DATA_ACK_UNPACK_FAIL",
     "DATA_ACK_TIMEOUT"}
QueryPhaseEvents ==
    {"QUERY_TX_FAIL", "PERMIT_ACK_INVALID", "PERMIT_ACK_UNPACK_FAIL", "PERMIT_ACK_TIMEOUT"}
FinalFailEvents ==
    {"QUERY_FINAL_FAIL", "PERMIT_FINAL_FAIL", "DATA_FINAL_FAIL", "DATA_ACK_FINAL_FAIL"}
CountIn(log, evs) == Cardinality({i \in 1..Len(log) : log[i].ev \in evs})
FailRowsOf(evs, att) ==
    Cardinality({i \in 1..Len(tx_log) : tx_log[i].ev \in evs /\ tx_log[i].attempt = att})

\* every failed attempt of the handshake has one failure row
C24_HandshakeAttempts ==
    hs_result = "False" =>
        \A a \in 1..RETRY_HANDSHAKE : FailRowsOf(AttemptFailEvents, a) = 1

\* every failed attempt of a message has one failure row, and every Dropped
\* message one *_FINAL_FAIL row
C24_MessageFailures ==
    MsgEnded =>
        /\ \A a \in 1..query_attempts :
              FailRowsOf(QueryPhaseEvents, a) =
                  (IF permission_received /\ a = query_attempts THEN 0 ELSE 1)
        /\ permission_received =>
              \A a \in 1..data_tx_attempts :
                  FailRowsOf(AttemptFailEvents \ QueryPhaseEvents, a) =
                      (IF data_ack_received /\ a = data_tx_attempts THEN 0 ELSE 1)
        /\ CountIn(tx_log, FinalFailEvents) =
              (IF outcomes[msg_idx] = "Dropped" THEN 1 ELSE 0)

\* C24: every failure that drives a state transition produces exactly one
\* event: each failed attempt logs exactly one of the *_FAIL / *_ACK_INVALID /
\* *_ACK_UNPACK_FAIL / *_ACK_TIMEOUT events, a handshake that exhausts its
\* budget logs exactly one HANDSHAKE_FINAL_FAIL, and a Dropped message logs
\* exactly one of QUERY_FINAL_FAIL, PERMIT_FINAL_FAIL, DATA_FINAL_FAIL,
\* DATA_ACK_FINAL_FAIL.
C24_OneEventPerFailure ==
    /\ C24_HandshakeAttempts
    /\ C24_MessageFailures
    /\ hs_result = "False" => Count(tx_log, "HANDSHAKE_FINAL_FAIL") = 1

\* messages of the run so far whose Data ACK was received
DeliveredCount == Cardinality({k \in 1..msg_idx : outcomes[k] = "Delivered"})

\* C25: in PDR mode each message is attempted exactly once: at most one Query
\* and at most one Data frame are written per message, exactly one Query for
\* a message that ended Delivered or Dropped, and unless SensorReader() failed
\* the value send_data returns is the number of messages whose Data ACK was
\* received, which exceeds neither the number of messages initiated nor n.
C25_PdrSingleAttempt ==
    mode = "PDR" =>
        /\ Cardinality(QueriesOn(tx_wire)) <= 1
        /\ Cardinality(DataOn(tx_wire)) <= 1
        /\ MsgEnded => Cardinality(QueriesOn(tx_wire)) = 1
        /\ hs_result = "True" /\ tx_pc \in {"msg_top", "query_loop", "permit_read",
                                            "query_exit", "data_loop", "ack_read",
                                            "data_exit"} =>
              /\ pdr_data_acks_received_count = DeliveredCount
                    + (IF data_ack_received /\ InDataPhase THEN 1 ELSE 0)
              /\ pdr_data_acks_received_count <= pdr_messages_tx_initiated_count
              /\ pdr_messages_tx_initiated_count <= msg_idx
              /\ msg_idx <= n
        /\ (tx_pc = "done" /\ final_return_value # -3) =>
              /\ final_return_value = DeliveredCount
              /\ final_return_value <= pdr_messages_tx_initiated_count
              /\ pdr_messages_tx_initiated_count <= n

C25_Witness ==
    /\ mode = "PDR"
    /\ tx_pc = "done"
    /\ n = 2
    /\ final_return_value = 1
    /\ pdr_messages_tx_initiated_count = 2
    /\ outcomes[1] = "Dropped"

\* iterations of the message loop that have ended
IterationsEnded == IF tx_pc \in {"msg_top", "done"} THEN msg_idx ELSE msg_idx - 1

\* C30: the message SEQ counter advances by exactly 1 modulo 256 once per
\* iteration of the message loop, whatever the iteration's outcome (Delivered,
\* Dropped without Permit, Dropped without Data ACK, skipped), and stays in
\* 0..255: it is the number of iterations ended, modulo 256.
C30_SeqCounterAdvancesPerIteration ==
    /\ [](hs_result = "True" /\ tx_pc # "setup" =>
              /\ current_message_seq_counter \in 0..255
              /\ current_message_seq_counter = IterationsEnded % 256)
    /\ [][outcomes' # outcomes =>
              current_message_seq_counter' = (current_message_seq_counter + 1) % 256]_vars
    /\ [][current_message_seq_counter' # current_message_seq_counter =>
              \/ outcomes' # outcomes
              \/ tx_pc = "setup"]_vars

C30_Witness ==
    /\ current_message_seq_counter = 0
    /\ msg_idx >= 256
    /\ outcomes[msg_idx] = "Delivered"
    /\ outcomes[msg_idx - 1] = "Dropped"

-----------------------------------------------------------------------------
(* Further properties of the receiver, stated for SpecRx *)

\* the TYPE values of the four control packets
ControlTypes ==
    {ACK_TYPE_HANDSHAKE, QUERY_TYPE_SEND_REQUEST, ACK_TYPE_SEND_PERMIT, ACK_TYPE_DATA}

\* C29: no byte value is both a control TYPE and a data LENGTH the receiver
\* accepts, so the classification of a first byte is unambiguous: a byte
\* taken for a TYPE is no valid LENGTH and a byte taken for a LENGTH is no
\* control TYPE.
C29_ClassifierDisjoint ==
    /\ ControlTypes \cap VALID_DATA_PKT_LENGTH_RANGE = {}
    /\ \A i \in 1..Len(rx_trace) :
          /\ rx_trace[i].cls = "type" =>
                /\ rx_trace[i].b \in ControlTypes
                /\ rx_trace[i].b \notin VALID_DATA_PKT_LENGTH_RANGE
          /\ rx_trace[i].cls = "length" =>
                /\ rx_trace[i].b \in VALID_DATA_PKT_LENGTH_RANGE
                /\ rx_trace[i].b \notin ControlTypes

C29_Witness ==
    /\ \E i \in 1..Len(rx_trace) : rx_trace[i].cls = "type"
    /\ \E i \in 1..Len(rx_trace) : rx_trace[i].cls = "length" /\ rx_trace[i].b = MIN_FRAME_LEN
    /\ \E i \in 1..Len(rx_trace) : rx_trace[i].cls = "ignored"

-----------------------------------------------------------------------------
(* Properties of the framer and the codec, stated for SpecCodec *)

C22_OverlongPayloadRefused ==
    (cx_pc # "start" /\ cx_payload_chunk # None
        /\ Len(cx_payload_chunk.bytes) > 56)
    => (cx_frame = None /\ cx_packet = <<>>)

\* the sample's scaled fields fit their integer types: _pack_data packs it
FitsIntegerTypes(sample) == Packable(sample)

Abs(x) == IF x < 0 THEN -x ELSE x

\* |raw - u/s| <= 1/s, for raw = num/den and the decoded number u/s
WithinStep(raw_value, decoded) ==
    Abs(raw_value.num * decoded.den - decoded.num * raw_value.den) <= raw_value.den

\* the decoded dict gives the sample back: ts exact in whole seconds, every
\* int16 field within one step of its scale (0.001 or 0.1)
Reconstructs(decoded, sample) ==
    /\ decoded.kind = "dict"
    /\ decoded.type = "sample"
    /\ \A k \in 1..Len(_FIELDS) :
        LET raw_value == sample.val[_FIELDS[k].path]
            d == decoded.scaled_values[k]
        IN  IF _FMT[k] = "I"
            THEN d.den = 1 /\ d.num = Trunc(raw_value.num, raw_value.den)
            ELSE IF _FMT[k] = "h"
                 THEN d.den = _FIELDS[k].scale /\ WithinStep(raw_value, d)
                 ELSE TRUE

RoundTripModes == {"raw", "none", "zlib"}

\* C27: for every sample whose scaled fields fit their integer types and for
\* each of the modes raw, none and zlib, encoding yields a payload and
\* decoding that payload in the same mode returns the sample with ts exact
\* and every scaled field within one quantisation step.
C27_CodecRoundTrip ==
    (/\ cx_args.payload_size = 0
     /\ FitsIntegerTypes(cx_args.sample)
     /\ cx_args.compression_mode \in RoundTripModes)
    => /\ cx_pc \in {"framed", "skipped", "written", "decoded"} => cx_frame # None
       /\ (cx_pc = "decoded" /\ cx_decode_args.method = cx_args.compression_mode)
              => Reconstructs(cx_decoded, cx_args.sample)

\* the packing and the unpacking as such: a payload encoded in mode "raw"
\* and decoded with method "none" gives the sample back within the steps,
\* and lat and lon come back as the binary32 values that were packed
RawThenNoneRoundTrip ==
    (/\ cx_pc = "decoded"
     /\ cx_frame # None
     /\ cx_args.payload_size = 0
     /\ cx_args.compression_mode = "raw"
     /\ cx_decode_args.method = "none")
    => /\ FitsIntegerTypes(cx_args.sample)
       /\ Reconstructs(cx_decoded, cx_args.sample)
       /\ \A k \in 1..Len(_FIELDS) :
            _FMT[k] = "f" =>
                cx_decoded.scaled_values[k].f32
                    = F32Bytes(cx_args.sample.val[_FIELDS[k].path])

KnownMethods == {"none", "zlib", "bam", "dummy_24b", "dummy_16b", "dummy_8b"}

\* C28: decode never raises: it returns a decoded record or None; in method
\* "none" a payload whose length is not 32, in method "zlib" a stream that
\* fails to decompress or decompresses to a length other than 32, and an
\* unknown method all return None.
C28_DecodeNeverRaises ==
    cx_pc = "decoded" =>
        /\ cx_decoded.kind \in {"dict", "None"}
        /\ (cx_decode_args.method = "none" /\ Len(cx_decode_args.payload) # 32)
              => cx_decoded = None
        /\ (cx_decode_args.method = "zlib"
              /\ cx_decode_args.payload \in BrokenStreams \cup ShortStreams)
              => cx_decoded = None
        /\ cx_decode_args.method \notin KnownMethods => cx_decoded = None

\* a stream zlib.decompress rejects was decoded with method "zlib"
C28_Witness ==
    /\ cx_pc = "decoded"
    /\ cx_decode_args.method = "zlib"
    /\ cx_decode_args.payload = Front(zlib_stored(GoodPacked)) \o <<0>>
    /\ cx_decoded = None

-----------------------------------------------------------------------------
(* A transmitter and a receiver run together over a link that loses and
   corrupts nothing: every packet one side writes is handed to the other
   side's port whole, once and in order *)

\* receiver.py: SENDER_COMPRESSION_METHOD = "none"
SENDER_COMPRESSION_METHOD == "none"

\* encoder.compress_data(sample) of a transmitter configured to the mode of
\* the receiver: the packed sample, passed through unchanged
compress_data(sample) == _pack_data(sample)

\* sensor dicts of the run: the base sample, one that packs to other bytes,
\* and one lacking a key
LinkSensorSamples ==
    { s \in SensorSamples :
        \/ s.keys # AllPaths
        \/ \A q \in AllPaths \ {"gps.lon"} : s.val[q] = BaseVal(q) }

\* what sr.get_sensor_data() can hand to the loop: no usable sample, or a
\* sensor dict with what compress_data makes of it
LinkSamples ==
    { [valid |-> FALSE, blob |-> <<>>] }
    \cup { [valid |-> TRUE, blob |-> compress_data(s)] : s \in LinkSensorSamples }

\* a response the receiver wrote waits in the transmitter's input buffer
Pending == lk_read < Len(rx_out)

\* s.read(ACK_PACKET_LEN): the oldest response waiting, or nothing
NextResponse ==
    IF Pending THEN <<rx_out[lk_read + 1].type, rx_out[lk_read + 1].seq>>
               ELSE <<>>

AfterRead == IF Pending THEN lk_read + 1 ELSE lk_read

\* the receiver waits for input and none is on its way: only then can a read
\* of the transmitter (GENERIC_TIMEOUT, 65 s, against the receiver's 7 s and
\* 0.05 s) end without a response
RxIdle ==
    /\ rx_buf = <<>>
    /\ lk_air = <<>>
    /\ rx_pc \in {"hs_top", "hs_readline", "conn_top"}

\* what the try block of the data branch makes of decoder.decode's result: a
\* dict is counted and then processed; None and an exception are not counted
DecodedAs(r) ==
    IF r.kind \in {"None", "raise"} THEN {"None"} ELSE {"dict", "raise"}

\* send_data(n, "PDR") and receiver.py's receive_loop() started together
InitLink ==
    /\ TxInit
    /\ mode = "PDR"
    /\ RxInit
    /\ receiver = "receiver"
    /\ CxOff
    /\ LkOff /\ PrOff

\* _handshake: s.write(SYN_MSG) takes the bytes
LkHsSendSyn ==
    /\ TxHsSendSynWith(TRUE)
    /\ lk_air' = Append(lk_air, SYN_MSG)
    /\ UNCHANGED <<lk_read, lk_flushed, lk_lost, lk_late, rx_vars, cx_vars, pr_vars>>

\* _handshake: ack_bytes = s.read(ACK_PACKET_LEN)
LkHsReadAck ==
    /\ Pending \/ RxIdle
    /\ TxHsReadAckWith(NextResponse)
    /\ lk_read' = AfterRead
    /\ UNCHANGED <<lk_air, lk_flushed, lk_lost, lk_late, rx_vars, cx_vars, pr_vars>>

\* sample = sr.get_sensor_data(); frames = make_frames(...): no frame
LkMsgSkip ==
    /\ \E sample \in LinkSamples : TxMsgSkipWith(sample)
    /\ UNCHANGED <<rx_vars, cx_vars, lk_vars, pr_vars>>

\* sample = sr.get_sensor_data(); frames = make_frames(...): one frame
LkMsgStart ==
    /\ \E sample \in LinkSamples : TxMsgStartWith(sample)
    /\ UNCHANGED <<rx_vars, cx_vars, lk_vars, pr_vars>>

\* _tx_control_packet(s, frame_seq_for_ack_handling, QUERY_TYPE_SEND_REQUEST)
LkQuerySend ==
    /\ TxQuerySendWith(TRUE)
    /\ lk_air' = Append(lk_air, QueryPacket)
    /\ UNCHANGED <<lk_read, lk_flushed, lk_lost, lk_late, rx_vars, cx_vars, pr_vars>>

\* s.reset_input_buffer() after the Query or the Data packet was written and
\* logged: whatever has reached the input buffer by then is dropped
LkResetInputBuffer ==
    /\ tx_pc \in {"permit_read", "ack_read"}
    /\ ~lk_flushed
    /\ lk_read' = Len(rx_out)
    /\ lk_flushed' = TRUE
    /\ UNCHANGED <<lk_air, lk_lost, lk_late, tx_vars, rx_vars, cx_vars, pr_vars>>

\* permit_ack_bytes = s.read(ACK_PACKET_LEN)
LkPermitRead ==
    /\ lk_flushed
    /\ Pending \/ RxIdle
    /\ TxPermitReadWith(NextResponse)
    /\ lk_read' = AfterRead
    /\ lk_flushed' = FALSE
    /\ UNCHANGED <<lk_air, lk_lost, lk_late, rx_vars, cx_vars, pr_vars>>

\* _tx_data_packet(s, raw_data_packet)
LkDataSend ==
    /\ TxDataSendWith(TRUE)
    /\ lk_air' = Append(lk_air, raw_data_packet)
    /\ UNCHANGED <<lk_read, lk_flushed, lk_lost, lk_late, rx_vars, cx_vars, pr_vars>>

\* data_ack_bytes = s.read(ACK_PACKET_LEN)
LkAckRead ==
    /\ lk_flushed
    /\ Pending \/ RxIdle
    /\ TxAckReadWith(NextResponse)
    /\ lk_read' = AfterRead
    /\ lk_flushed' = FALSE
    /\ UNCHANGED <<lk_air, lk_lost, lk_late, rx_vars, cx_vars, pr_vars>>

\* the receiver's port is handed the oldest packet on the link
LkDeliver ==
    /\ lk_air # <<>>
    /\ RxArriveWith(Head(lk_air))
    /\ lk_air' = Tail(lk_air)
    /\ UNCHANGED <<lk_read, lk_flushed, lk_lost, lk_late, tx_vars, cx_vars, pr_vars>>

\* handshake loop: readline, and the Handshake-ACK written in full
LkRxHsReadline ==
    /\ RxHsReadlineWith(TRUE)
    /\ UNCHANGED <<tx_vars, cx_vars, lk_vars, pr_vars>>

\* payload_dict = decoder.decode(payload_chunk_from_actual_frame,
\*                               method=SENDER_COMPRESSION_METHOD)
LkRxDecode ==
    /\ actual_content_bytes # <<>>
    /\ \E decoded \in DecodedAs(decode(Tail(actual_content_bytes),
                                       SENDER_COMPRESSION_METHOD)) :
           RxDecodeWith(decoded)
    /\ UNCHANGED <<tx_vars, cx_vars, lk_vars, pr_vars>>

NextLink ==
    \/ LkHsSendSyn
    \/ LkHsReadAck
    \/ TxHsExhausted
    \/ TxHandshakeFailed
    \/ TxSetup
    \/ LkMsgSkip
    \/ LkMsgStart
    \/ LkQuerySend
    \/ LkResetInputBuffer
    \/ LkPermitRead
    \/ TxPermitFailed
    \/ TxPermitted
    \/ LkDataSend
    \/ LkAckRead
    \/ TxMsgEnd
    \/ TxReturn
    \/ LkDeliver
    \/ RxHsResetInput
    \/ LkRxHsReadline
    \/ RxReadFirstByte
    \/ RxReadCtrlSeq
    \/ RxReadDataBody
    \/ RxDataFrame
    \/ LkRxDecode

SpecLink == InitLink /\ [][NextLink]_vars

-----------------------------------------------------------------------------
(* A transmitter and a receiver run together over a link that may lose a
   packet or hold it back, and that corrupts and invents nothing: what
   arrives, arrives whole and in the order it was written *)

MaxLost == 1

MaxLate == 2

\* s.read(ACK_PACKET_LEN): the oldest response waiting, or nothing when the
\* timeout ends first
ReadOutcomes == {<<>>} \cup (IF Pending THEN {NextResponse} ELSE {})

\* the read timed out although a response was on its way or still to come
Late(read) == read = <<>> /\ (Pending \/ ~RxIdle)

\* the sensor dict read for the i-th message: the base sample, its ts a
\* second later with each message
SampleOf(i) ==
    [keys |-> AllPaths,
     val  |-> [q \in AllPaths |->
                  IF q = "ts" THEN Num(BaseVal("ts").num + i, 1) ELSE BaseVal(q)]]

\* what sr.get_sensor_data() hands to the i-th iteration of the loop
LossySample(i) == [valid |-> TRUE, blob |-> compress_data(SampleOf(i))]

\* send_data(n, "PDR") and receiver.py's receive_loop() started together
InitLossy ==
    /\ tx_pc = "hs_send"
    /\ mode = "PDR"
    /\ n = MaxMsgs + 1
    /\ TxFresh
    /\ RxInit
    /\ receiver = "receiver"
    /\ rssi_enabled = FALSE
    /\ CxOff
    /\ LkOff /\ PrOff

\* _handshake: ack_bytes = s.read(ACK_PACKET_LEN)
LyHsReadAck ==
    /\ \E read \in ReadOutcomes :
        /\ TxHsReadAckWith(read)
        /\ lk_read' = (IF read = <<>> THEN lk_read ELSE lk_read + 1)
        /\ Late(read) => lk_late < MaxLate
        /\ lk_late' = (IF Late(read) THEN lk_late + 1 ELSE lk_late)
    /\ UNCHANGED <<lk_air, lk_flushed, lk_lost, rx_vars, cx_vars, pr_vars>>

\* sample = sr.get_sensor_data(); frames = make_frames(...): one frame
LyMsgStart ==
    /\ TxMsgStartWith(LossySample(msg_idx + 1))
    /\ UNCHANGED <<rx_vars, cx_vars, lk_vars, pr_vars>>

\* s.reset_input_buffer(): whatever has reached the input buffer is dropped,
\* what the link still holds back is not
LyResetInputBuffer ==
    /\ tx_pc \in {"permit_read", "ack_read"}
    /\ ~lk_flushed
    /\ lk_read' \in lk_read..Len(rx_out)
    /\ lk_flushed' = TRUE
    /\ UNCHANGED <<lk_air, lk_lost, lk_late, tx_vars, rx_vars, cx_vars, pr_vars>>

\* permit_ack_bytes = s.read(ACK_PACKET_LEN)
LyPermitRead ==
    /\ lk_flushed
    /\ \E read \in ReadOutcomes :
        /\ TxPermitReadWith(read)
        /\ lk_read' = (IF read = <<>> THEN lk_read ELSE lk_read + 1)
        /\ Late(read) => lk_late < MaxLate
        /\ lk_late' = (IF Late(read) THEN lk_late + 1 ELSE lk_late)
    /\ lk_flushed' = FALSE
    /\ UNCHANGED <<lk_air, lk_lost, rx_vars, cx_vars, pr_vars>>

\* data_ack_bytes = s.read(ACK_PACKET_LEN)
LyAckRead ==
    /\ lk_flushed
    /\ \E read \in ReadOutcomes :
        /\ TxAckReadWith(read)
        /\ lk_read' = (IF read = <<>> THEN lk_read ELSE lk_read + 1)
        /\ Late(read) => lk_late < MaxLate
        /\ lk_late' = (IF Late(read) THEN lk_late + 1 ELSE lk_late)
    /\ lk_flushed' = FALSE
    /\ UNCHANGED <<lk_air, lk_lost, rx_vars, cx_vars, pr_vars>>

\* the link loses the oldest packet on its way to the receiver
LyLoseRequest ==
    /\ lk_air # <<>>
    /\ Len(lk_lost) < MaxLost
    /\ lk_air' = Tail(lk_air)
    /\ lk_lost' = Append(lk_lost, Head(lk_air))
    /\ UNCHANGED <<lk_read, lk_flushed, lk_late, tx_vars, rx_vars, cx_vars, pr_vars>>

\* the link loses the oldest response on its way to the transmitter
LyLoseResponse ==
    /\ Pending
    /\ Len(lk_lost) < MaxLost
    /\ lk_read' = lk_read + 1
    /\ lk_lost' = Append(lk_lost, NextResponse)
    /\ UNCHANGED <<lk_air, lk_flushed, lk_late, tx_vars, rx_vars, cx_vars, pr_vars>>

NextLossy ==
    \/ LkHsSendSyn
    \/ LyHsReadAck
    \/ TxHsExhausted
    \/ TxHandshakeFailed
    \/ TxSetup
    \/ LyMsgStart
    \/ LkQuerySend
    \/ LyResetInputBuffer
    \/ LyPermitRead
    \/ TxPermitFailed
    \/ TxPermitted
    \/ LkDataSend
    \/ LyAckRead
    \/ TxMsgEnd
    \/ TxReturn
    \/ LkDeliver
    \/ LyLoseRequest
    \/ LyLoseResponse
    \/ RxHsResetInput
    \/ LkRxHsReadline
    \/ RxReadFirstByte
    \/ RxReadCtrlSeq
    \/ RxReadDataBody
    \/ RxDataIncomplete
    \/ RxDataFrame
    \/ LkRxDecode

SpecLossy == InitLossy /\ [][NextLossy]_vars

-----------------------------------------------------------------------------
(* Properties of the two ends run together, stated for SpecLink *)

\* messages for which the transmitter wrote a Query
Attempted == {i \in 1..n : outcomes[i] \in {"Delivered", "Dropped"}}

\* send_data has returned and the receiver has nothing left to read
LinkAtRest == tx_pc = "done" /\ RxIdle

\* C26: over a link that loses and corrupts nothing, when a PDR run has
\* ended every message the transmitter attempted is Delivered and the
\* receiver's received_message_count equals their number.
C26_LosslessPdrAllDelivered ==
    (mode = "PDR" /\ LinkAtRest) =>
        /\ \A i \in Attempted : outcomes[i] = "Delivered"
        /\ received_message_count = Cardinality(Attempted)

\* the receiver has written the response the transmitter's next read is for
\* (the Permit of the Query, the Data ACK of the Data packet it has just
\* written) and the transmitter has not taken it
AnswerPending ==
    \E i \in (lk_read + 1)..Len(rx_out) :
        /\ rx_out[i].type = IF tx_pc = "permit_read" THEN ACK_TYPE_SEND_PERMIT
                                                     ELSE ACK_TYPE_DATA
        /\ rx_out[i].seq = frame_seq_for_ack_handling

\* C39: over a link that loses nothing, under every interleaving of the
\* receiver's write with the transmitter's steps, the transmitter's
\* reset_input_buffer() between writing a request and reading it never
\* discards the receiver's response to that request, so that the read of
\* that attempt returns it.
C39_ResetKeepsTheAnswer ==
    [][(tx_pc \in {"permit_read", "ack_read"} /\ ~lk_flushed /\ lk_flushed')
           => ~AnswerPending]_vars

-----------------------------------------------------------------------------
(* Properties of the two ends over a link that loses and delays, stated for
   SpecLossy *)

\* the receiver has read a whole Data frame that carries the sample of the
\* i-th message
FrameReceived(i) ==
    \E k \in 1..Len(rx_frames) : rx_frames[k].payload = LossySample(i).blob

\* C38: over a link that may lose or delay but not corrupt or invent bytes,
\* whenever the transmitter counts a message as Delivered the receiver has
\* fully received a Data frame of that same message; a stale or delayed
\* response of an earlier message or of the Permit phase is never accepted
\* as this message's Data ACK.
C38_DeliveredWasReceived ==
    /\ \A i \in 1..n : outcomes[i] = "Delivered" => FrameReceived(i)
    /\ (tx_pc \in {"data_loop", "data_exit"} /\ data_ack_received) =>
          FrameReceived(msg_idx)

\* C40: when the receiver is Connected and the one packet the link has lost
\* is its Handshake-ACK, the SYN the transmitter sends again is answered with
\* a Handshake-ACK and the transmitter's handshake completes; the
\* transmitter never exhausts its handshake budget with the receiver
\* Connected.
C40_HandshakeRecovers ==
    (/\ handshake_success
     /\ lk_lost = << <<ACK_TYPE_HANDSHAKE, HANDSHAKE_ACK_SEQ>> >>
     /\ lk_late = 0) =>
        /\ hs_result # "False"
        /\ (tx_pc = "hs_read" /\ rx_conn_syn >= 1 /\ RxIdle) => Pending

-----------------------------------------------------------------------------
(* Termination of the transmitter, stated for Spec *)

\* steps the Data phase of one message can still take
DataPhaseLeft ==
    2 * (RETRY_DATA_ACK - data_tx_attempts) + (IF tx_pc = "ack_read" THEN 2 ELSE 1)

\* steps one message can still take, counted from where it stands
MessageLeft ==
    IF tx_pc \in {"data_loop", "ack_read", "data_exit"} THEN DataPhaseLeft
    ELSE IF tx_pc \in {"query_loop", "permit_read", "query_exit"}
    THEN 2 * (RETRY_QUERY_PERMIT - query_attempts)
           + (IF tx_pc = "permit_read" THEN 2 ELSE 1)
           + 2 * RETRY_DATA_ACK + 2
    ELSE 0

\* steps a whole message can take
MessageMost == 2 * RETRY_QUERY_PERMIT + 2 * RETRY_DATA_ACK + 4

\* steps send_data can still take before it returns
StepsLeft ==
    IF tx_pc = "done" THEN 0
    ELSE IF tx_pc \in {"hs_send", "hs_read"}
    THEN MessageMost * n + 3 + 2 * (RETRY_HANDSHAKE - attempt)
           + (IF tx_pc = "hs_read" THEN 1 ELSE 0)
    ELSE IF tx_pc = "setup" THEN MessageMost * n + 2
    ELSE MessageMost * (n - msg_idx) + 1 + MessageLeft

\* C31: send_data ends when every read returns within its timeout: each of
\* its steps takes it closer to the return and it is never stuck before it;
\* for each message it writes at most effective_retry_query_permit Queries
\* and at most effective_retry_data_ack Data packets.
C31_SendDataTerminates ==
    /\ [](/\ Cardinality(QueriesOn(tx_wire)) <= effective_retry_query_permit
          /\ Cardinality(DataOn(tx_wire)) <= effective_retry_data_ack
          /\ StepsLeft >= 0
          /\ (tx_pc # "done" => ENABLED Next))
    /\ [][StepsLeft' < StepsLeft]_vars

\* send_data returned after a message that used up the whole Query budget
\* of reliable mode without a Permit
C31_Witness ==
    /\ tx_pc = "done"
    /\ mode = "reliable"
    /\ n >= 1
    /\ outcomes[n] = "Dropped"
    /\ Cardinality(QueriesOn(tx_wire)) = RETRY_QUERY_PERMIT
    /\ Cardinality(DataOn(tx_wire)) = 0

-----------------------------------------------------------------------------
(* A PacketReassembler fed frame after frame *)

MaxCalls == 4

\* the payload chunk of frame seq of the message (pkt_id, total): empty, one
\* byte that names the message and the frame, or that byte and one more
Chunk(pkt_id, seq, total, variant) ==
    IF variant = 0 THEN <<>>
    ELSE IF variant = 1 THEN <<100 * pkt_id + 10 * total + seq>>
    ELSE <<100 * pkt_id + 10 * total + seq, 7>>

\* frame contents a caller can hand over: PKT_ID, SEQ, TOTAL, PAYLOAD_CHUNK,
\* and contents shorter than the header
FrameContents ==
    { <<pkt_id, seq, total>> \o Chunk(pkt_id, seq, total, variant) :
        pkt_id \in {1, 2}, seq \in 0..3, total \in 0..3, variant \in 0..2 }
    \cup { <<>>, <<1>>, <<1, 0>> }

\* the reassembler object
Self == Reassembler(ra_frames, ra_current_pkt_id, ra_current_total_frames)

InitFrames ==
    /\ TxOff
    /\ RxOff
    /\ CxOff
    /\ LkOff
    /\ RaFresh
    /\ JrFresh

\* one call of process_frame
RaProcessFrame ==
    /\ ra_calls < MaxCalls
    /\ \E frame_content \in FrameContents :
        LET o == process_frame(Self, frame_content) IN
        /\ ra_frames' = o.self.frames
        /\ ra_current_pkt_id' = o.self.current_pkt_id
        /\ ra_current_total_frames' = o.self.current_total_frames
        /\ ra_returned' = o.returned
        /\ ra_frame_content' = frame_content
    /\ ra_calls' = ra_calls + 1
    /\ ra_before' = Self
    /\ UNCHANGED <<tx_vars, rx_vars, cx_vars, lk_vars, jr_vars>>

NextFrames ==
    \/ RaProcessFrame

SpecFrames == InitFrames /\ [][NextFrames]_vars

-----------------------------------------------------------------------------
(* Properties of the reassembler of header-framed chunks, stated for
   SpecFrames *)

\* the header and the chunk of the frame of the last call
LastPktId == ra_frame_content[1]
LastSeq == ra_frame_content[2]
LastTotal == ra_frame_content[3]
LastChunk == SubSeq(ra_frame_content, 4, Len(ra_frame_content))

\* the last call was handed a frame with a whole header
HeaderRead == ra_calls > 0 /\ Len(ra_frame_content) >= 3

\* ... whose SEQ and TOTAL are those of a frame of a message
ValidFrame == HeaderRead /\ LastTotal > 0 /\ LastSeq < LastTotal

\* the call found a message in progress with the frame's PKT_ID and TOTAL
SameMessage ==
    /\ ra_before.current_pkt_id = LastPktId
    /\ ra_before.current_total_frames = LastTotal

\* the call found a message in progress with another PKT_ID or TOTAL
OtherMessage == ra_before.current_pkt_id # -1 /\ ~SameMessage

\* the chunks the call found stored for the frame's message
ChunksBefore == IF SameMessage THEN ra_before.frames ELSE NoFrames

\* the frame completes SEQs 0..TOTAL-1 of its message
Completes ==
    /\ ValidFrame
    /\ LastSeq \notin DOMAIN ChunksBefore
    /\ DOMAIN ChunksBefore \cup {LastSeq} = 0..(LastTotal - 1)

ChunkFor(seq) ==
    IF seq = LastSeq THEN LastChunk
    ELSE IF seq \in DOMAIN ChunksBefore THEN ChunksBefore[seq]
    ELSE <<>>

\* the chunks of the message in ascending SEQ order
InSeqOrder == ChunkFor(0) \o ChunkFor(1) \o ChunkFor(2) \o ChunkFor(3)

IsEmptyState ==
    /\ ra_frames = NoFrames
    /\ ra_current_pkt_id = -1
    /\ ra_current_total_frames = -1

StateAsBefore ==
    /\ ra_frames = ra_before.frames
    /\ ra_current_pkt_id = ra_before.current_pkt_id
    /\ ra_current_total_frames = ra_before.current_total_frames

\* C32: process_frame returns a blob exactly when the frame it was handed
\* completes SEQs 0..total-1 of the current PKT_ID; the blob is the stored
\* chunks in ascending SEQ order, whatever the order of arrival, and the
\* reassembler is empty afterwards.
C32_BlobWhenComplete ==
    ra_calls > 0 =>
        /\ (ra_returned.kind = "bytes") <=> Completes
        /\ Completes => /\ ra_returned = BytesValue(InSeqOrder)
                        /\ IsEmptyState

\* a message of three frames completed by its frame 0, which arrived last
C32_Witness ==
    /\ Completes
    /\ LastTotal = 3
    /\ LastSeq = 0
    /\ ra_before.frames[1] # <<>>
    /\ ra_before.frames[2] # <<>>
    /\ LastChunk # <<>>
    /\ ra_returned.kind = "bytes"

\* C33: a frame whose SEQ is already stored for the current PKT_ID and total
\* is ignored: None is returned, the payload stored first stays, and the
\* stored frames, the PKT_ID and the total are as before.
C33_DuplicateIgnored ==
    (HeaderRead /\ SameMessage /\ LastSeq \in DOMAIN ra_before.frames) =>
        /\ ra_returned = None
        /\ StateAsBefore

\* the same SEQ of the same message arrived again with another payload
C33_Witness ==
    /\ HeaderRead
    /\ SameMessage
    /\ LastSeq \in DOMAIN ra_before.frames
    /\ ra_before.frames[LastSeq] # LastChunk
    /\ ra_frames[LastSeq] = ra_before.frames[LastSeq]
    /\ ra_returned = None

\* the message a payload byte names: 10 * PKT_ID + TOTAL
MessageOf(b) == b \div 10

\* C34: a valid frame whose PKT_ID or TOTAL differs from the message in
\* progress discards every stored frame and starts a new message with itself
\* as the only stored frame (a message of one frame is complete by it and is
\* returned at once); no returned blob holds chunks of two messages.
C34_NewMessageDiscardsOld ==
    /\ (ValidFrame /\ OtherMessage) =>
          IF LastTotal = 1
          THEN ra_returned = BytesValue(LastChunk) /\ IsEmptyState
          ELSE /\ ra_returned = None
               /\ DOMAIN ra_frames = {LastSeq}
               /\ ra_frames[LastSeq] = LastChunk
               /\ ra_current_pkt_id = LastPktId
               /\ ra_current_total_frames = LastTotal
    /\ (ra_calls > 0 /\ ra_returned.kind = "bytes") =>
          \A i \in 1..Len(ra_returned.bytes) :
              ra_returned.bytes[i] >= 100 =>
                  MessageOf(ra_returned.bytes[i]) = 10 * LastPktId + LastTotal

\* two frames of one message were stored when a frame with the same PKT_ID
\* and another TOTAL arrived
C34_Witness ==
    /\ ValidFrame
    /\ OtherMessage
    /\ Cardinality(DOMAIN ra_before.frames) = 2
    /\ ra_before.current_pkt_id = LastPktId
    /\ LastTotal = 2
    /\ LastChunk # <<>>
    /\ DOMAIN ra_frames = {LastSeq}

\* the last call raised PacketReassemblyError itself, none of its subclasses
RaisedReassemblyError == ra_returned = Raise("PacketReassemblyError")

\* every stored SEQ is in 0..total-1, so at most total frames are stored
StoredWithinTotal ==
    /\ \A seq \in DOMAIN ra_frames : 0 <= seq /\ seq < ra_current_total_frames
    /\ ra_frames # NoFrames => Cardinality(DOMAIN ra_frames) <= ra_current_total_frames

\* C35 as stated: process_frame raises PacketReassemblyError for a frame
\* shorter than 3 bytes, for total = 0 with a non-empty payload and for
\* SEQ >= total, each time with the stored frames, the PKT_ID and the total
\* as before; every stored SEQ is in 0..total-1 and no more than total
\* frames are stored.
C35_RejectsLeaveStateAsStated ==
    /\ (ra_calls > 0 /\ Len(ra_frame_content) < 3) =>
          RaisedReassemblyError /\ StateAsBefore
    /\ (HeaderRead /\ LastTotal = 0 /\ LastChunk # <<>>) =>
          RaisedReassemblyError /\ StateAsBefore
    /\ (HeaderRead /\ LastSeq >= LastTotal) =>
          RaisedReassemblyError /\ StateAsBefore
    /\ StoredWithinTotal

\* C35, amended: process_frame raises PacketReassemblyError for a frame
\* shorter than 3 bytes, for total = 0 with a non-empty payload and for
\* SEQ >= total when total > 0, each time with the stored frames, the PKT_ID
\* and the total as before; a frame with total = 0 and no payload returns
\* None, also with the state as before; every stored SEQ is in 0..total-1 and
\* no more than total frames are stored.
C35_RejectsLeaveState ==
    /\ (ra_calls > 0 /\ Len(ra_frame_content) < 3) =>
          RaisedReassemblyError /\ StateAsBefore
    /\ (HeaderRead /\ LastTotal = 0 /\ LastChunk # <<>>) =>
          RaisedReassemblyError /\ StateAsBefore
    /\ (HeaderRead /\ LastTotal > 0 /\ LastSeq >= LastTotal) =>
          RaisedReassemblyError /\ StateAsBefore
    /\ (HeaderRead /\ LastTotal = 0 /\ LastChunk = <<>>) =>
          ra_returned = None /\ StateAsBefore
    /\ StoredWithinTotal

\* a frame with SEQ = total was refused while two frames of its message were
\* stored
C35_Witness ==
    /\ HeaderRead
    /\ SameMessage
    /\ LastSeq = LastTotal
    /\ Cardinality(DOMAIN ra_frames) = 2
    /\ RaisedReassemblyError

-----------------------------------------------------------------------------
(* A JSON-line PacketReassembler fed line after line *)

MaxLines == 3

\* the base64 text of one byte and of three bytes
B64Of1(b) == <<b \div 4, (b % 4) * 16, B64Pad, B64Pad>>

B64Of3(b0, b1, b2) ==
    <<b0 \div 4, (b0 % 4) * 16 + b1 \div 16, (b1 % 16) * 4 + b2 \div 64, b2 % 64>>

\* the byte that names packet seq of a message of total packets
Tag(seq, total) == 10 * total + seq

\* payload texts of packet (seq, total) that decode: no byte, the packet's
\* tag, the tag and two more bytes
GoodPayloads(seq, total) ==
    { JsonStr(<<>>), JsonStr(B64Of1(Tag(seq, total))),
      JsonStr(B64Of3(Tag(seq, total), 7, 8)) }

\* payload values that are no string or do not decode
BadPayloads ==
    { Absent, JsonNull, JsonInt(1), JsonStr(<<16>>), JsonStr(<<16, 16>>),
      JsonStr(<<16, 16, B64Pad>>), JsonStr(<<16, B64Outside, B64Pad, B64Pad>>),
      JsonStr(<<B64NonAscii>>), JsonStr(<<16, B64Pad, 16, 16>>) }

\* seq and total values that are no JSON integer
BadNumbers == { Absent, JsonNull, JsonStr(<<1>>), JsonFloat(1) }

\* lines a caller can hand over
Lines ==
    { DictLine(seq, total, payload) :
        seq \in { JsonInt(i) : i \in 0..4 } \cup { JsonBool(TRUE), JsonBool(FALSE) },
        total \in { JsonInt(i) : i \in -1..3 } \cup { JsonBool(TRUE) },
        payload \in { JsonStr(<<>>) } }
    \cup UNION { { DictLine(JsonInt(seq), JsonInt(total), payload) :
                      payload \in GoodPayloads(seq, total) } :
                    seq \in 1..3, total \in 1..3 }
    \cup { DictLine(JsonInt(1), JsonInt(total), payload) :
             total \in 1..2, payload \in BadPayloads }
    \cup { DictLine(seq, JsonInt(total), JsonStr(<<>>)) :
             seq \in BadNumbers, total \in 1..2 }
    \cup { DictLine(JsonInt(1), total, JsonStr(<<>>)) : total \in BadNumbers }
    \cup { BadJson, NotADict }

\* the JSON-line reassembler object
LineSelf == LineReassembler(jr_packets, jr_expected_total)

InitLines ==
    /\ TxOff
    /\ RxOff
    /\ CxOff
    /\ LkOff
    /\ RaFresh
    /\ JrFresh

\* one call of process_line
JrProcessLine ==
    /\ jr_calls < MaxLines
    /\ \E line \in Lines :
        LET o == process_line(LineSelf, line) IN
        /\ jr_packets' = o.self.packets
        /\ jr_expected_total' = o.self.expected_total
        /\ jr_returned' = o.returned
        /\ jr_line' = line
    /\ jr_calls' = jr_calls + 1
    /\ jr_before' = LineSelf
    /\ UNCHANGED <<tx_vars, rx_vars, cx_vars, lk_vars, ra_vars>>

NextLines ==
    \/ JrProcessLine

SpecLines == InitLines /\ [][NextLines]_vars

-----------------------------------------------------------------------------
(* Properties of the reassembler of JSON lines, stated for SpecLines *)

\* the line holds an object whose seq, total and payload passed every check
\* of process_line's steps 1 to 4
FieldsAccepted ==
    /\ jr_calls > 0
    /\ jr_line.parses
    /\ jr_line.kind = "dict"
    /\ IsInstanceInt(jr_line.seq)
    /\ IsInstanceInt(jr_line.total)
    /\ IsInstanceStr(jr_line.payload)
    /\ 0 < jr_line.seq.num
    /\ jr_line.seq.num <= jr_line.total.num
    /\ b64decode(jr_line.payload.str).ok

\* the line is an object with JSON integers seq and total, 1 <= seq <= total,
\* and a JSON string payload of base64 text
WellFormedLine ==
    /\ FieldsAccepted
    /\ jr_line.seq.type = "int"
    /\ jr_line.total.type = "int"

\* bad JSON, a missing or mistyped key, seq outside 1..total or bad base64
MalformedLine == jr_calls > 0 /\ ~WellFormedLine

\* the total of the line is the total of the message in progress, if any
SameTotal == jr_before.expected_total \in {-1, jr_line.total.num}

LineStateAsBefore ==
    /\ jr_packets = jr_before.packets
    /\ jr_expected_total = jr_before.expected_total

LineStateEmpty == jr_packets = <<>> /\ jr_expected_total = -1

\* the packets of the message in progress with the packet of the line
WithLine ==
    Stored(IF jr_before.expected_total = -1 THEN <<>> ELSE jr_before.packets,
           jr_line.seq.num, b64decode(jr_line.payload.str).bytes)

\* C36: a well-formed packet whose total differs from the total of the
\* message in progress resets the reassembler to its empty state and raises
\* InconsistentPacketDataError without storing the packet; a malformed line
\* (bad JSON, missing or mistyped keys, seq outside 1..total, bad base64)
\* raises PacketFormatError and leaves the stored packets and the expected
\* total unchanged.
C36_MalformedLineRefused ==
    /\ (WellFormedLine /\ ~SameTotal) =>
          /\ jr_returned = Raise("InconsistentPacketDataError")
          /\ LineStateEmpty
    /\ MalformedLine =>
          /\ jr_returned = Raise("PacketFormatError")
          /\ LineStateAsBefore

\* the tag bytes of a message, in the order they have in it
TagsOf(bytes) == SelectSeq(bytes, LAMBDA b : b > 8)

\* C37: a packet whose seq is already stored raises DuplicatePacketError with
\* the state unchanged; the call returns a message exactly when the packet
\* just stored completes seqs 1..total, the message is the payloads in
\* ascending seq order, the state is reset afterwards, and the "missing
\* packet" PacketReassemblyError is never raised.
C37_MessageWhenComplete ==
    /\ (FieldsAccepted /\ SameTotal /\ jr_line.seq.num \in DOMAIN jr_before.packets) =>
          /\ jr_returned = Raise("DuplicatePacketError")
          /\ LineStateAsBefore
    /\ jr_returned.kind = "bytes" <=>
          /\ FieldsAccepted
          /\ SameTotal
          /\ jr_line.seq.num \notin DOMAIN jr_before.packets
          /\ DOMAIN WithLine = 1..jr_line.total.num
    /\ jr_returned.kind = "bytes" =>
          /\ jr_returned.bytes = 
                LET RECURSIVE Up(_)
                    Up(k) == IF k = 0 THEN <<>> ELSE Up(k - 1) \o WithLine[k]
                IN  Up(jr_line.total.num)
          /\ \A i, j \in 1..Len(TagsOf(jr_returned.bytes)) :
                i < j => TagsOf(jr_returned.bytes)[i] < TagsOf(jr_returned.bytes)[j]
          /\ LineStateEmpty
    /\ jr_returned # Raise("PacketReassemblyError")

\* the first packet of a message of three, handed over last, completed it
C37_Witness ==
    /\ jr_returned.kind = "bytes"
    /\ jr_line.total.num = 3
    /\ jr_line.seq.num = 1
    /\ Len(TagsOf(jr_returned.bytes)) = 3

====
